---------------------------- MODULE Spec2Model ----------------------------
(***************************************************************************)
(* A model of the moestation PlayStation 2 emulator core: the event        *)
(* scheduler (core/scheduler.cpp), the GS scanline loop (core/gs/gs.cpp),  *)
(* the interrupt controllers (core/intc.cpp), the EE timers                *)
(* (core/ee/timer/timer.cpp), the IOP DMA controller with its SIF0 engine  *)
(* (core/iop/dmac/dmac.cpp) and the EE DMA controller's channel gating     *)
(* (core/ee/dmac/dmac.cpp).                                                *)
(*                                                                         *)
(* Registers are modelled as sets of bit positions (bit b is 1 iff b is in *)
(* the set), so that and/or/xor/and-not are set operations at any width.   *)
(* The program is single-threaded: every action is one call into the       *)
(* program (a register access, a scheduler call) run to completion,        *)
(* including every callback and nested call it makes.  The operators below *)
(* take the machine state as a record m and return the state after the     *)
(* call; an action commits the record to the variables.                    *)
(***************************************************************************)
EXTENDS Integers, Sequences, FiniteSets, TLC

(* ------------------------------ bounds -------------------------------- *)

\* The model's scanline length in EE cycles.  gs.cpp:26 has 2 * 9370; the
\* model is scaled so that the scheduler can be explored cycle by cycle.
ScanlineCycles == 4

\* The largest elapsedCycles one processEvents call is given.
MaxElapsed == 2

\* The largest delay of an event added through addEvent by the environment.
MaxDelay == 2

\* Horizon of the scheduler specification, in scanlines.
MaxLines == 4

(* --------------------------- program constants ------------------------ *)

CYCLES_PER_SCANLINE == ScanlineCycles
SCANLINES_PER_VDRAW == 240
SCANLINES_PER_FRAME == 262

\* TLC's integers are 32 bits wide; the sentinel of reschedule() is the
\* largest value of the cycle type.
INT64_MAX == 2147483647

\* Event ids, in the order init() registers the callbacks.
idHBLANK == 0
idTransferEnd == 1
idSIF0Start == 2
idSIF1Start == 3

\* EE INTC sources (bit of INTC_STAT) and IOP INTC sources (bit of I_STAT).
EE_VBLANKStart == 2
EE_VBLANKEnd == 3
IOP_VBLANKStart == 0
IOP_DMA == 3
IOP_VBLANKEnd == 11

(* ------------------------------ helpers ------------------------------- *)

Min(a, b) == IF a < b THEN a ELSE b

Xor(a, b) == (a \ b) \cup (b \ a)

\* a | b on registers held as sets of bit positions
Or(a, b) == IF b \subseteq a THEN a ELSE a \cup b

RemoveAt(q, i) == SubSeq(q, 1, i - 1) \o SubSeq(q, i + 1, Len(q))

(* ------------------------------- state -------------------------------- *)

VARIABLES
    events,                 \* scheduler: the event deque, front first
    cycleCount,             \* scheduler: cycles accumulated since the last drain
    cyclesUntilNextEvent,   \* scheduler: cached minimum
    csr,                    \* GS CSR
    lineCounter,            \* GS scanline counter
    timers,                 \* EE timers 0..3
    intcMASK, intcSTAT,     \* EE INTC
    iMASK, iSTAT, iCTRL,    \* IOP INTC
    interruptPending,       \* IOP COP0 interrupt line
    channels,               \* IOP DMAC channels 0..13
    dicr, dicr2,            \* IOP DMAC interrupt control
    dpcr, dpcr2, dmacen,    \* IOP DMAC priority control and enable
    sif0,                   \* SIF0 FIFO (IOP -> EE), front first
    iopRAM,                 \* IOP memory: the words the program has set
    eeDrq, eeStr, dmae, enable, \* EE DMAC: DRQ and CHCR.str per channel, D_CTRL.DMAE, D_ENABLE
    eeMadr,                 \* EE DMAC: MADR per channel
    ee,                     \* EE Core: regs, pc, cpc, npc, inDelaySlot
    hist,                   \* history: the instructions executed so far, each with the CPU state it found
    spram,                  \* EE scratchpad RAM: the bytes written so far, by offset
    ram,                    \* EE main RAM: the bytes written so far, by address
    acc,                    \* history: the memory accesses made so far
    iop,                    \* IOP: registers, program counters and the delay-slot helper
    iopSPRAM,               \* IOP scratchpad: the bytes written so far, by offset
    spramStart,             \* first address of the IOP scratchpad window (u32)
    spramEnd,               \* end address of the IOP scratchpad window (u32)
    cdvd,                   \* CDVD drive: command registers, seek parameters, read buffer
    loop,                   \* history: cycles the EE and the IOP have executed in the main loop
    io,                     \* history: the last INTC register access, its data, its result and the registers it found
    eePcr,                  \* EE DMAC: D_PCR (cde, pce)
    sent,                   \* history: the IOP interrupt sources the last call raised
    gif,                    \* GIF: the current GIFtag, the loop counters and, as history, what the last tag's data was routed to
    sif,                    \* SIF: the mailbox registers MSCOM, MSFLG, SMCOM, SMFLG and BD6
    fault,                  \* "none", or how the process ended
    now,                    \* history: cycles handed to processEvents so far
    hblanks,                \* history: number of HBLANK callbacks so far
    fired,                  \* history: what the last call dispatched
    bursts,                 \* history: the SIF0 bursts the last call started
    pushLog,                \* history: source address of every word pushed to SIF0
    pulled,                 \* history: the words the EE side has pulled from SIF0
    chainStart,             \* history: the TADR the program last set
    snaps,                  \* history: the registers at the end of each HBLANK callback of the last call
    lastOp                  \* history: the last call made

vars == <<events, cycleCount, cyclesUntilNextEvent, csr, lineCounter, timers,
          intcMASK, intcSTAT, iMASK, iSTAT, iCTRL, interruptPending,
          channels, dicr, dicr2, dpcr, dpcr2, dmacen, sif0, iopRAM,
          eeMadr,
          ee,
          hist,
          spram,
          ram,
          acc,
          iop,
          iopSPRAM,
          spramStart,
          spramEnd,
          cdvd,
          loop,
          io,
          eePcr,
          sent,
          gif,
          sif,
          eeDrq, eeStr, dmae, enable, fault,
          now, hblanks, fired, bursts, pushLog, pulled, chainStart, snaps,
          lastOp>>

\* The machine state as one record.
M == [events |-> events, cycleCount |-> cycleCount,
      cyclesUntilNextEvent |-> cyclesUntilNextEvent,
      csr |-> csr, lineCounter |-> lineCounter, timers |-> timers,
      intcMASK |-> intcMASK, intcSTAT |-> intcSTAT,
      iMASK |-> iMASK, iSTAT |-> iSTAT, iCTRL |-> iCTRL,
      interruptPending |-> interruptPending,
      channels |-> channels, dicr |-> dicr, dicr2 |-> dicr2,
      dpcr |-> dpcr, dpcr2 |-> dpcr2, dmacen |-> dmacen,
      sif0 |-> sif0, iopRAM |-> iopRAM,
      eeDrq |-> eeDrq, eeStr |-> eeStr, dmae |-> dmae, enable |-> enable,
      eeMadr |-> eeMadr,
      ee |-> ee,
      hist |-> hist,
      spram |-> spram,
      ram |-> ram,
      acc |-> acc,
      iop |-> iop,
      iopSPRAM |-> iopSPRAM,
      spramStart |-> spramStart,
      spramEnd |-> spramEnd,
      cdvd |-> cdvd,
      loop |-> loop,
      io |-> io,
      eePcr |-> eePcr,
      sent |-> sent,
      gif |-> gif,
      sif |-> sif,
      fault |-> fault,
      now |-> now, hblanks |-> hblanks, fired |-> fired, bursts |-> bursts,
      pushLog |-> pushLog, pulled |-> pulled, chainStart |-> chainStart,
      snaps |-> snaps, lastOp |-> lastOp]

\* The next state is the record r.
Commit(r) ==
    \E m \in {r} :
        /\ events' = m.events
        /\ cycleCount' = m.cycleCount
        /\ cyclesUntilNextEvent' = m.cyclesUntilNextEvent
        /\ csr' = m.csr
        /\ lineCounter' = m.lineCounter
        /\ timers' = m.timers
        /\ intcMASK' = m.intcMASK
        /\ intcSTAT' = m.intcSTAT
        /\ iMASK' = m.iMASK
        /\ iSTAT' = m.iSTAT
        /\ iCTRL' = m.iCTRL
        /\ interruptPending' = m.interruptPending
        /\ channels' = m.channels
        /\ dicr' = m.dicr
        /\ dicr2' = m.dicr2
        /\ dpcr' = m.dpcr
        /\ dpcr2' = m.dpcr2
        /\ dmacen' = m.dmacen
        /\ sif0' = m.sif0
        /\ iopRAM' = m.iopRAM
        /\ eeDrq' = m.eeDrq
        /\ eeStr' = m.eeStr
        /\ dmae' = m.dmae
        /\ enable' = m.enable
        /\ eeMadr' = m.eeMadr
        /\ ee' = m.ee
        /\ hist' = m.hist
        /\ spram' = m.spram
        /\ ram' = m.ram
        /\ acc' = m.acc
        /\ iop' = m.iop
        /\ iopSPRAM' = m.iopSPRAM
        /\ spramStart' = m.spramStart
        /\ spramEnd' = m.spramEnd
        /\ cdvd' = m.cdvd
        /\ loop' = m.loop
        /\ io' = m.io
        /\ eePcr' = m.eePcr
        /\ sent' = m.sent
        /\ gif' = m.gif
        /\ sif' = m.sif
        /\ fault' = m.fault
        /\ now' = m.now
        /\ hblanks' = m.hblanks
        /\ fired' = m.fired
        /\ bursts' = m.bursts
        /\ pushLog' = m.pushLog
        /\ pulled' = m.pulled
        /\ chainStart' = m.chainStart
        /\ snaps' = m.snaps
        /\ lastOp' = m.lastOp

Alive(m) == m.fault = "none"

\* A failed assert() aborts the process; exit(0) ends it.
Abort(m, how) == IF Alive(m) THEN [m EXCEPT !.fault = how] ELSE m

\* The start of a call: the history of the previous call is dropped.
Call(m, op) ==
    [m EXCEPT !.lastOp = op, !.fired = <<>>, !.bursts = <<>>, !.snaps = <<>>,
              !.sent = <<>>]

(* ----------------------------- scheduler ------------------------------ *)

RECURSIVE MinCycles(_)
MinCycles(q) ==
    IF q = <<>> THEN INT64_MAX
    ELSE Min(q[1].cyclesUntilEvent, MinCycles(Tail(q)))

\* A mutation of reschedule(): the scan starts behind the front element.
reschedule_skipFront(m) ==
    [m EXCEPT !.cyclesUntilNextEvent =
        IF m.events = <<>> THEN INT64_MAX ELSE MinCycles(Tail(m.events))]

reschedule(m) == [m EXCEPT !.cyclesUntilNextEvent = MinCycles(m.events)]

\* An Event is {id, param, cyclesUntilEvent}; wait is history (what is left
\* of the delay asked for, counted in elapsed cycles since the insertion)
\* and is never read by the program.
addEvent(m, id, param, cyclesUntilEvent, doReschedule) ==
    IF ~Alive(m) THEN m
    ELSE IF cyclesUntilEvent < 0 THEN Abort(m, "assert")
    ELSE LET e == [id |-> id, param |-> param,
                   cyclesUntilEvent |-> cyclesUntilEvent,
                   wait |-> cyclesUntilEvent]
             m1 == [m EXCEPT !.events = <<e>> \o @]
         IN IF doReschedule THEN reschedule(m1) ELSE m1

(* ------------------------------- INTC --------------------------------- *)

checkInterruptIOP(m) ==
    [m EXCEPT !.interruptPending = m.iCTRL /\ (m.iSTAT \cap m.iMASK) # {}]

\* A mutation of sendInterruptIOP(): the request is dropped.
sendInterruptIOP_dropped(m, i) == checkInterruptIOP(m)

sendInterruptIOP(m, i) ==
    checkInterruptIOP([m EXCEPT !.iSTAT = @ \cup {i}, !.sent = Append(@, i)])

\* intc::sendInterrupt (EE side).
sendInterrupt(m, i) == [m EXCEPT !.intcSTAT = @ \cup {i}]

\* A mutation of writeMask(): the mask is overwritten.
writeMask_overwrite(m, data) == [m EXCEPT !.intcMASK = data \cap (0..14)]

writeMask(m, data) == [m EXCEPT !.intcMASK = Xor(@, data) \cap (0..14)]

writeStat(m, data) == [m EXCEPT !.intcSTAT = (@ \ data) \cap (0..14)]

writeMaskIOP(m, data) == checkInterruptIOP([m EXCEPT !.iMASK = data \cap (0..25)])

\* A mutation of writeStatIOP(): the bits written as 1 are cleared.
writeStatIOP_clearOnes(m, data) == checkInterruptIOP([m EXCEPT !.iSTAT = @ \ data])

writeStatIOP(m, data) == checkInterruptIOP([m EXCEPT !.iSTAT = @ \cap data])

writeCtrlIOP(m, data) == checkInterruptIOP([m EXCEPT !.iCTRL = 0 \in data])

\* A mutation of readCtrlIOP(): I_CTRL is left as it is.
readCtrlIOP_keep(m) == checkInterruptIOP(m)

\* The read clears I_CTRL; the value read is the old I_CTRL.
readCtrlIOP(m) == checkInterruptIOP([m EXCEPT !.iCTRL = FALSE])

readCtrlIOPValue(m) == m.iCTRL

(* ----------------------------- EE timers ------------------------------ *)

\* One pass of the loop of stepHBLANK() from timer i on.  The counts stay
\* far below 2^32 on every horizon explored here, so count++ never wraps.
RECURSIVE stepTimers(_, _)
stepTimers(m, i) ==
    IF i > 3 \/ ~Alive(m) THEN m
    ELSE LET t == m.timers[i] IN
         IF ~t.cue \/ t.clks # 3 THEN stepTimers(m, i + 1)
         ELSE LET c == t.count + 1 IN
              IF c = t.comp
              THEN IF t.cmpe /\ ~t.equf
                   THEN Abort([m EXCEPT !.timers[i].count = c,
                                        !.timers[i].equf = TRUE], "assert")
                   ELSE stepTimers([m EXCEPT !.timers[i].count =
                                        IF t.zret THEN 0 ELSE c], i + 1)
              ELSE IF (c \div 65536) % 2 = 1 /\ t.ovfe /\ ~t.ovff
                   THEN Abort([m EXCEPT !.timers[i].count = c,
                                        !.timers[i].ovff = TRUE], "assert")
                   ELSE stepTimers([m EXCEPT !.timers[i].count = c], i + 1)

stepHBLANK(m) == stepTimers(m, 0)

\* write32 of the timers, T_MODE of channel chn: the fields that stepHBLANK
\* reads (the gate fields, the prescaler and the subcount are not part of
\* this state).
timerWriteMODE(m, chn, data) ==
    [m EXCEPT !.timers[chn] =
        [@ EXCEPT !.clks = (IF 0 \in data THEN 1 ELSE 0) + (IF 1 \in data THEN 2 ELSE 0),
                  !.zret = 6 \in data,
                  !.cue = 7 \in data,
                  !.cmpe = 8 \in data,
                  !.ovfe = 9 \in data,
                  !.equf = IF 10 \in data THEN FALSE ELSE @,
                  !.ovff = IF 11 \in data THEN FALSE ELSE @]]

(* --------------------------------- GS --------------------------------- *)

\* History only: what a HBLANK callback entered with state m is about to
\* return with.
Snap(m, r) ==
    IF ~Alive(r) THEN r
    ELSE [r EXCEPT !.snaps = Append(@,
            [lineIn |-> m.lineCounter, lineOut |-> r.lineCounter,
             csrIn |-> m.csr, csr |-> r.csr,
             intcIn |-> m.intcSTAT, intcSTAT |-> r.intcSTAT,
             iIn |-> m.iSTAT, iSTAT |-> r.iSTAT,
             maskIn |-> m.iMASK, iMASK |-> r.iMASK])]

\* iop::timer::stepHBLANK() touches the IOP timer counters only; they are
\* not part of this state.
hblankEvent(m, c) ==
    LET m1 == stepHBLANK(m)
        m2 == [m1 EXCEPT !.csr = Or(@, {2}), !.lineCounter = @ + 1,
                         !.hblanks = @ + 1]
        m3 == IF m2.lineCounter = SCANLINES_PER_VDRAW
              THEN [sendInterruptIOP(sendInterrupt(m2, EE_VBLANKStart),
                                     IOP_VBLANKStart)
                        EXCEPT !.csr = Xor(@ \cup {3}, {13})]
              ELSE IF m2.lineCounter = SCANLINES_PER_FRAME
              THEN [sendInterruptIOP(sendInterrupt(m2, EE_VBLANKEnd),
                                     IOP_VBLANKEnd)
                        EXCEPT !.lineCounter = 0]
              ELSE m2
    IN IF ~Alive(m1) THEN m1
       ELSE Snap(m, addEvent(m3, idHBLANK, 0, CYCLES_PER_SCANLINE + c, FALSE))

(* ------------------------- IOP memory and SIF ------------------------- *)

\* The bits of a number below 2^31, and the number a set of bits stands for.
Pow2 == [b \in 0..30 |-> 2 ^ b]

BitsOf(n) == {b \in 0..30 : (n \div Pow2[b]) % 2 = 1}

RECURSIVE Val(_)
Val(S) == IF S = {} THEN 0
          ELSE LET b == CHOOSE x \in S : TRUE IN Pow2[b] + Val(S \ {b})

\* Memory the program has not written holds a pattern that is different at
\* every word, so that a word read from the wrong place is seen.
DataWord(addr) == BitsOf(addr) \cup {28}

\* bus::readDMAC32
readDMAC32(m, addr) ==
    IF addr \in DOMAIN m.iopRAM THEN m.iopRAM[addr] ELSE DataWord(addr)

SIF_FIFO_SIZE == 32

\* sif::getSIF0Size
getSIF0Size(m) == Len(m.sif0)

\* sif::writeSIF0: the FIFO is bounded; overflow is fatal.
writeSIF0(m, addr) ==
    IF ~Alive(m) THEN m
    ELSE IF Len(m.sif0) >= SIF_FIFO_SIZE THEN Abort(m, "fatal")
    ELSE [m EXCEPT !.sif0 = Append(@, readDMAC32(m, addr)),
                   !.pushLog = Append(@, addr)]

\* sif::readSIF0: the EE side takes the word at the front.
readSIF0(m) ==
    IF m.sif0 = <<>> THEN Abort(m, "fatal")
    ELSE [m EXCEPT !.sif0 = Tail(@), !.pulled = Append(@, Head(m.sif0))]

(* ------------------------------ EE DMAC ------------------------------- *)

EE_SIF0 == 5
EE_SIF1 == 6

\* ee::dmac::checkRunning
eeCheckRunning(m, chn) ==
    IF 16 \in m.enable \/ ~m.dmae THEN m
    ELSE IF chn \in m.eeDrq /\ chn \in m.eeStr THEN Abort(m, "exit")
    ELSE m

\* ee::dmac::setDRQ
eeSetDRQ(m, chn, drq) ==
    eeCheckRunning([m EXCEPT !.eeDrq = IF drq THEN @ \cup {chn} ELSE @ \ {chn}],
                   chn)

\* ee::dmac::checkRunningAll: the first channel found is started.
RECURSIVE eeCheckRunningFrom(_, _)
eeCheckRunningFrom(m, i) ==
    IF i >= 10 THEN m
    ELSE IF i \in m.eeDrq /\ (~m.eePcr.pce \/ i \in m.eePcr.cde) /\ i \in m.eeStr
         THEN Abort(m, "exit")
         ELSE eeCheckRunningFrom(m, i + 1)

eeCheckRunningAll(m) ==
    IF 16 \in m.enable \/ ~m.dmae THEN m ELSE eeCheckRunningFrom(m, 0)

\* ee::dmac::writeEnable
eeWriteEnable(m, data) ==
    IF 16 \in data THEN Abort(m, "exit")
    ELSE eeCheckRunningAll([m EXCEPT !.enable = data])

\* ee::dmac::write, by register: D_CHCR (str is bit 8), D_CTRL (dmae is
\* bit 0), D_PCR (cde in bits 16..25, pce is bit 31).
eeWriteCHCR(m, chn, data) ==
    eeCheckRunning([m EXCEPT !.eeStr = IF 8 \in data THEN @ \cup {chn} ELSE @ \ {chn}],
                   chn)

eeWriteCTRL(m, data) == eeCheckRunningAll([m EXCEPT !.dmae = 0 \in data])

eeWritePCR(m, data) ==
    eeCheckRunningAll([m EXCEPT !.eePcr = [cde |-> {b - 16 : b \in data \cap (16..25)},
                                           pce |-> 31 \in data]])

\* ee::dmac::write, D_MADR: chn.madr = data & ~15
eeWriteMADR(m, chn, data) == [m EXCEPT !.eeMadr[chn] = data \ (0..3)]

(* ------------------------------ IOP DMAC ------------------------------ *)

SIF0 == 9
SIF1 == 10

\* DMACINTEN: never written by the program.
cie == TRUE
mid == FALSE

\* A mutation of checkInterrupt(): the pending bits of DICR2 are not seen.
checkInterrupt_noDICR2(m) ==
    LET mif == cie /\ (m.dicr.bef \/ (m.dicr.mie /\ m.dicr.ip # {}))
        m1 == [m EXCEPT !.dicr.mif = mif]
    IN IF ~m.dicr.mif /\ mif /\ ~mid THEN sendInterruptIOP(m1, IOP_DMA) ELSE m1

\* A mutation of checkInterrupt(): the interrupt is sent while mif is set.
checkInterrupt_level(m) ==
    LET mif == cie /\ (m.dicr.bef \/ (m.dicr.mie /\ (m.dicr.ip # {} \/ m.dicr2.ip # {})))
        m1 == [m EXCEPT !.dicr.mif = mif]
    IN IF mif /\ ~mid THEN sendInterruptIOP(m1, IOP_DMA) ELSE m1

\* dmac::checkInterrupt
checkInterrupt(m) ==
    LET mif == cie /\ (m.dicr.bef \/ (m.dicr.mie /\ (m.dicr.ip # {} \/ m.dicr2.ip # {})))
        m1 == [m EXCEPT !.dicr.mif = mif]
    IN IF ~m.dicr.mif /\ mif /\ ~mid THEN sendInterruptIOP(m1, IOP_DMA) ELSE m1

\* A mutation of transferEndEvent(): the ip bit is not set.
transferEndEvent_noIp(m, chnID) ==
    checkInterrupt([m EXCEPT !.channels[chnID].isTagEnd = FALSE,
                             !.channels[chnID].str = FALSE])

\* A mutation of transferEndEvent(): the pending bit is set whatever the mask.
transferEndEvent_unmasked(m, chnID) ==
    LET m1 == [m EXCEPT !.channels[chnID].isTagEnd = FALSE,
                        !.channels[chnID].str = FALSE]
        m2 == IF chnID < 7
              THEN [m1 EXCEPT !.dicr.ip = @ \cup {chnID}]
              ELSE [m1 EXCEPT !.dicr2.ip = @ \cup {chnID - 7}]
    IN checkInterrupt(m2)

transferEndEvent(m, chnID) ==
    LET m1 == [m EXCEPT !.channels[chnID].isTagEnd = FALSE,
                        !.channels[chnID].str = FALSE]
        m2 == IF chnID < 7
              THEN IF chnID \in m1.dicr.im
                   THEN [m1 EXCEPT !.dicr.ip = @ \cup {chnID}] ELSE m1
              ELSE IF (chnID - 7) \in m1.dicr2.im
                   THEN [m1 EXCEPT !.dicr2.ip = @ \cup {chnID - 7}] ELSE m1
    IN checkInterrupt(m2)

sif0StartEvent(m) == eeSetDRQ(m, EE_SIF0, TRUE)

sif1StartEvent(m) == eeSetDRQ(m, EE_SIF1, TRUE)

\* The DMAtag at tadr as a 64-bit value: the word at tadr in bits 0..31, the
\* word at tadr + 4 in bits 32..63.
readTag(m, tadr) ==
    readDMAC32(m, tadr) \cup {b + 32 : b \in readDMAC32(m, tadr + 4)}

\* len = (dmaTag >> 32) & 0xFFFFF, rounded up to a multiple of 4.
tagLen(dmaTag) ==
    LET len == Val({b - 32 : b \in dmaTag \cap (32..51)})
    IN IF len % 4 # 0 THEN (len - (len % 4) + 3) + 1 ELSE len

\* dmaTag & (3 << 30): the int constant 3 << 30 is 0xC0000000, negative, and
\* is sign-extended to 64 bits for the and with the u64 tag.
tagEnd(dmaTag) == dmaTag \cap (30..63) # {}

\* A mutation of the copy loop of doSIF0(): every other word is skipped.
RECURSIVE pushWords_stride8(_, _, _)
pushWords_stride8(m, addr, n) ==
    IF n = 0 THEN m
    ELSE pushWords_stride8(writeSIF0(m, addr), addr + 8, n - 1)

\* The copy loop of doSIF0(): n words from addr upward.
RECURSIVE pushWords(_, _, _)
pushWords(m, addr, n) ==
    IF n = 0 THEN m
    ELSE CHOOSE r \in {pushWords(w, addr + 4, n - 1) :
                          w \in {writeSIF0(m, addr)}} : TRUE

\* The channel's enable bit of DPCR / DPCR2.
cde(m, i) == IF i < 7 THEN (4 * i + 3) \in m.dpcr ELSE (4 * (i - 7) + 3) \in m.dpcr2

\* The first part of doSIF0: a new DMAtag is fetched when len is 0.
sif0FetchTag(m) ==
    LET chn == m.channels[SIF0]
        dmaTag == readTag(m, chn.tadr)
        m1 == writeSIF0(writeSIF0(m, chn.tadr + 8), chn.tadr + 12)
    IN IF ~Alive(m1) THEN m1
       ELSE [m1 EXCEPT !.channels[SIF0].tadr = @ + 16,
                       !.channels[SIF0].madr = Val(dmaTag \cap (2..23)),
                       !.channels[SIF0].len = tagLen(dmaTag),
                       !.channels[SIF0].isTagEnd = tagEnd(dmaTag)]

doSIF0(m) ==
    LET c0 == m.channels[SIF0]
        f0 == sif0FetchTag(m)
        m0 == [m EXCEPT !.bursts = Append(@,
                  [fill |-> Len(m.sif0), len |-> c0.len, drq |-> c0.drq,
                   str |-> c0.str, dmacen |-> m.dmacen, cde |-> cde(m, SIF0),
                   fetched |-> c0.len = 0 /\ ~c0.dec /\ c0.tte /\ Alive(f0),
                   tadr |-> c0.tadr, tag |-> readTag(m, c0.tadr),
                   decoded |-> f0.channels[SIF0]])]
        queue(m3, len) ==
            LET m4 == addEvent(m3, idSIF0Start, 0, 16 * len, TRUE)
            IN IF m4.channels[SIF0].len = 0 /\ m4.channels[SIF0].isTagEnd
               THEN addEvent(m4, idTransferEnd, SIF0, 16 * len, FALSE)
               ELSE m4
        move(m1) ==
            LET c1 == m1.channels[SIF0]
                len == Min(SIF_FIFO_SIZE - getSIF0Size(m1), Min(c1.len, 32))
            IN IF ~Alive(m1) THEN m1
               ELSE IF len = 0 THEN Abort(m1, "assert")
               ELSE CHOOSE r \in
                      {queue([m2 EXCEPT !.channels[SIF0].len = @ - len,
                                        !.channels[SIF0].madr = @ + 4 * len,
                                        !.channels[SIF0].drq = FALSE], len) :
                          m2 \in {pushWords(m1, c1.madr, len)}} : TRUE
        fetch(m1) == IF c0.len = 0 THEN sif0FetchTag(m1) ELSE m1
    IN IF c0.dec \/ ~c0.tte THEN Abort(m0, "assert")
       ELSE CHOOSE r \in {move(m1) : m1 \in {fetch(v) : v \in {m0}}} : TRUE

\* Only the SIF0 engine is modelled; doSIF1 and every other channel end the
\* process here.
startDMA(m, chn) == IF chn = SIF0 THEN doSIF0(m) ELSE Abort(m, "exit")

checkRunning(m, chn) ==
    IF ~m.dmacen THEN m
    ELSE IF m.channels[chn].drq /\ cde(m, chn) /\ m.channels[chn].str
         THEN startDMA(m, chn) ELSE m

RECURSIVE checkRunningFrom(_, _)
checkRunningFrom(m, i) ==
    IF i >= 13 THEN m
    ELSE IF (m.channels[i].drq \/ m.channels[i].fst) /\ cde(m, i) /\ m.channels[i].str
         THEN startDMA(m, i)
         ELSE checkRunningFrom(m, i + 1)

checkRunningAll(m) == IF ~m.dmacen THEN m ELSE checkRunningFrom(m, 0)

\* dmac::setDRQ
setDRQ(m, chn, drq) == checkRunning([m EXCEPT !.channels[chn].drq = drq], chn)

\* dmac::write32, by register.
writeCHCR(m, chn, data) ==
    IF 29 \in data THEN Abort(m, "assert")
    ELSE checkRunning([m EXCEPT !.channels[chn].dec = 1 \in data,
                                !.channels[chn].tte = 8 \in data,
                                !.channels[chn].str = 24 \in data,
                                !.channels[chn].fst = 28 \in data], chn)

\* A mutation of the MADR write: the two low bits are kept.
writeMADR_unmasked(m, chn, data) ==
    [m EXCEPT !.channels[chn].madr = Val(data \cap (0..23))]

writeMADR(m, chn, data) ==
    [m EXCEPT !.channels[chn].madr = Val(data \cap (2..23))]

writeTADR(m, chn, data) ==
    [m EXCEPT !.channels[chn].tadr = Val(data \cap (2..23)),
              !.chainStart = IF chn = SIF0 THEN Val(data \cap (2..23)) ELSE @]

writeDPCR2(m, data) == checkRunningAll([m EXCEPT !.dpcr2 = data])

writeDMACEN(m, data) == checkRunningAll([m EXCEPT !.dmacen = 0 \in data])

writeDICR(m, data) ==
    checkInterrupt([m EXCEPT
        !.dicr.sie = data \cap (0..5),
        !.dicr.bef = 15 \in data,
        !.dicr.im = {b - 16 : b \in data \cap (16..21)},
        !.dicr.mie = 23 \in data,
        !.dicr.ip = (@ \ {b - 24 : b \in data \cap (24..31)}) \cap (0..5)])

writeDICR2(m, data) ==
    checkInterrupt([m EXCEPT
        !.dicr2.tie = data \cap {4, 9, 10},
        !.dicr2.im = {b - 16 : b \in data \cap (16..20)},
        !.dicr2.ip = (m.dicr.ip \ {b - 24 : b \in data \cap (24..31)}) \cap (0..4)])

(* ------------------------ scheduler: the drain ------------------------ *)

\* registeredFuncs[id](param, cyclesUntilEvent)
registeredFuncs(m, id, param, c) ==
    IF id = idHBLANK THEN hblankEvent(m, c)
    ELSE IF id = idTransferEnd THEN transferEndEvent(m, param)
    ELSE IF id = idSIF0Start THEN sif0StartEvent(m)
    ELSE sif1StartEvent(m)

\* The loop of processEvents with k events still to visit; they are the last
\* k of the deque.  A callback that calls addEvent pushes at the front of the
\* deque while the loop holds an iterator into it: push_front invalidates the
\* iterator and its further use is undefined.  The build either goes on with
\* the iterator where it was (the new events lie before it and are not
\* visited), or it follows a stale block pointer and the process is lost;
\* ub picks between the two.
RECURSIVE sweep(_, _, _)
sweep(m, k, ub) ==
    IF k = 0 \/ ~Alive(m) THEN m
    ELSE LET i == Len(m.events) - k + 1
             ev == m.events[i]
             c == ev.cyclesUntilEvent - m.cycleCount
         IN IF c <= 0
            THEN LET log == [id |-> ev.id, param |-> ev.param, residual |-> c,
                             wait |-> ev.wait,
                             len |-> IF ev.id = idTransferEnd
                                     THEN m.channels[ev.param].len ELSE 0,
                             nth |-> IF ev.id = idHBLANK THEN m.hblanks + 1 ELSE 0,
                             at |-> m.now, eeDone |-> m.loop.ee,
                             iopDone |-> m.loop.iop,
                             str |-> IF ev.id = idTransferEnd
                                     THEN m.channels[ev.param].str ELSE FALSE,
                             isTagEnd |-> IF ev.id = idTransferEnd
                                          THEN m.channels[ev.param].isTagEnd
                                          ELSE FALSE]
                     m1 == [m EXCEPT !.events = RemoveAt(@, i),
                                     !.fired = Append(@, log)]
                 IN CHOOSE r \in
                      {IF ub /\ Len(m2.events) > Len(m1.events)
                       THEN Abort(m2, "undefined")
                       ELSE sweep(m2, k - 1, ub) :
                          m2 \in {registeredFuncs(m1, ev.id, ev.param, c)}} :
                      TRUE
            ELSE CHOOSE r \in
                   {sweep(m2, k - 1, ub) :
                       m2 \in {[m EXCEPT !.events[i].cyclesUntilEvent = c]}} :
                   TRUE

\* History only: elapsedCycles more cycles have passed for every event.
RECURSIVE Elapse(_, _)
Elapse(q, elapsedCycles) ==
    IF q = <<>> THEN <<>>
    ELSE <<[q[1] EXCEPT !.wait = IF @ > elapsedCycles
                                 THEN @ - elapsedCycles ELSE 0]>>
         \o Elapse(Tail(q), elapsedCycles)

processEvents(m, elapsedCycles, ub) ==
    IF m.events = <<>> THEN Abort(m, "assert")
    ELSE LET drain(m1) ==
                 IF m1.cycleCount < m1.cyclesUntilNextEvent THEN m1
                 ELSE CHOOSE r \in
                        {IF ~Alive(m2) THEN m2
                         ELSE reschedule([m2 EXCEPT !.cycleCount =
                                              @ - m2.cyclesUntilNextEvent]) :
                            m2 \in {sweep(m1, Len(m1.events), ub)}} : TRUE
         IN CHOOSE r \in
              {drain(m1) :
                  m1 \in {[m EXCEPT !.cycleCount = @ + elapsedCycles,
                                    !.now = @ + elapsedCycles,
                                    !.events = Elapse(@, elapsedCycles)]}} : TRUE

(* ------------------------------ bit values ---------------------------- *)

\* Values of 32, 64 and 128 bits are sets of bit positions.  a + b modulo 2^w:
RECURSIVE AddFrom(_, _, _, _, _)
AddFrom(a, b, i, w, c) ==
    IF i >= w THEN {}
    ELSE LET n == (IF i \in a THEN 1 ELSE 0) + (IF i \in b THEN 1 ELSE 0) + c
         IN (IF n % 2 = 1 THEN {i} ELSE {}) \cup AddFrom(a, b, i + 1, w, n \div 2)

Add32(a, b) == AddFrom(a, b, 0, 32, 0)

\* A value of `from` bits converted to a signed type and widened to `to` bits.
SignExt(S, from, to) == IF (from - 1) \in S THEN S \cup (from..(to - 1)) ELSE S

\* (S << n) in w bits.
Shl(S, n, w) == {b + n : b \in S} \cap (0..(w - 1))

\* getOpcode, getFunct, getRd, getRs, getRt: (instr >> lo) & mask, as a number.
Field(instr, lo, hi) == Val({b - lo : b \in instr \cap (lo..hi)})

(* ---------------------------- byte memories --------------------------- *)

\* A memory is a function from byte address to byte (a set of bits 0..7) on
\* the addresses written so far; every other byte is 0, as the loader and
\* vector::resize leave it.
ByteAt(mem, a) == IF a \in DOMAIN mem THEN mem[a] ELSE {}

\* memcpy(&data, &mem[base], n), little endian
ReadBytes(mem, base, n) ==
    UNION {{b + 8 * k : b \in ByteAt(mem, base + k)} : k \in 0..(n - 1)}

\* memcpy(&mem[base], &data, n)
WriteBytes(mem, base, n, data) ==
    [a \in DOMAIN mem \cup (base..(base + n - 1)) |->
        IF a \in base..(base + n - 1)
        THEN {b - 8 * (a - base) : b \in data \cap ((8 * (a - base))..(8 * (a - base) + 7))}
        ELSE mem[a]]

(* ------------------------------- EE Core ------------------------------ *)

\* 0xBFC00000
RESET_VECTOR == (22..29) \cup {31}

RA == 31

\* A set32 that writes the whole register.
eeSet32_wholeRegister(m, idx, data) ==
    [m EXCEPT !.ee.regs = [[@ EXCEPT ![idx] = [lo |-> SignExt(data, 32, 64), hi |-> {}]]
                              EXCEPT ![0] = [lo |-> {}, hi |-> {}]]]

eeSet32(m, idx, data) ==
    [m EXCEPT !.ee.regs = [[@ EXCEPT ![idx].lo = SignExt(data, 32, 64)]
                              EXCEPT ![0] = [lo |-> {}, hi |-> {}]]]

eeSet64(m, idx, data) ==
    [m EXCEPT !.ee.regs = [[@ EXCEPT ![idx].lo = data]
                              EXCEPT ![0] = [lo |-> {}, hi |-> {}]]]

eeSet128(m, idx, data) ==
    [m EXCEPT !.ee.regs = [[@ EXCEPT ![idx] = data]
                              EXCEPT ![0] = [lo |-> {}, hi |-> {}]]]

eeSetPC(m, addr) ==
    IF addr = {} THEN Abort(m, "jump to 0")
    ELSE IF addr \cap {0, 1} # {} THEN Abort(m, "misaligned PC")
    ELSE [m EXCEPT !.ee.pc = addr, !.ee.npc = Add32(addr, {2})]

\* A setBranchPC without the delay: the target becomes the PC at once.
eeSetBranchPC_noDelay(m, addr) ==
    IF addr = {} THEN Abort(m, "jump to 0")
    ELSE IF addr \cap {0, 1} # {} THEN Abort(m, "misaligned PC")
    ELSE [m EXCEPT !.ee.pc = addr, !.ee.npc = Add32(addr, {2})]

eeSetBranchPC(m, addr) ==
    IF addr = {} THEN Abort(m, "jump to 0")
    ELSE IF addr \cap {0, 1} # {} THEN Abort(m, "misaligned PC")
    ELSE [m EXCEPT !.ee.npc = addr]

eeStepPC(m) == [m EXCEPT !.ee.pc = m.ee.npc, !.ee.npc = Add32(m.ee.npc, {2})]

\* ee::cpu::doBranch
\* A doBranch that links before it looks at the delay slot.
eeDoBranch_linkFirst(m, target, isCond, rd, isLikely) ==
    LET m1 == eeSet32(m, rd, m.ee.npc)
    IN IF m.ee.inDelaySlot[1] THEN Abort(m1, "branch in delay slot")
       ELSE [m1 EXCEPT !.ee.inDelaySlot[2] = TRUE]

\* A doBranch that runs the delay slot of a likely branch not taken.
eeDoBranch_keepSlot(m, target, isCond, rd, isLikely) ==
    IF m.ee.inDelaySlot[1] THEN Abort(m, "branch in delay slot")
    ELSE LET m1 == eeSet32(m, rd, m.ee.npc)
             m2 == [m1 EXCEPT !.ee.inDelaySlot[2] = TRUE]
         IN IF isCond THEN eeSetBranchPC(m2, target) ELSE m2

eeDoBranch(m, target, isCond, rd, isLikely) ==
    IF m.ee.inDelaySlot[1] THEN Abort(m, "branch in delay slot")
    ELSE LET m1 == eeSet32(m, rd, m.ee.npc)
             m2 == [m1 EXCEPT !.ee.inDelaySlot[2] = TRUE]
         IN IF isCond THEN eeSetBranchPC(m2, target)
            ELSE IF isLikely
                 THEN LET m3 == eeSetPC(m2, m2.ee.npc)
                      IN IF Alive(m3) THEN [m3 EXCEPT !.ee.inDelaySlot[2] = FALSE]
                         ELSE m3
                 ELSE m2

(* --------------------------- EE Core: memory -------------------------- *)

\* Masks that keep one address bit too many.
SPRAMMask_15bits ==
    (1 :> (0..14)) @@ (2 :> (1..14)) @@ (4 :> (2..14)) @@ (8 :> (3..14))
    @@ (16 :> (4..14))

\* The address masks of readSPRAM8 .. readSPRAM128 and writeSPRAM8 ..
\* writeSPRAM128, by access width in bytes: 0x3FFF, 0x3FFE, 0x3FFC, 0x3FF8,
\* 0x3FF0.
SPRAMMask ==
    (1 :> (0..13)) @@ (2 :> (1..13)) @@ (4 :> (2..13)) @@ (8 :> (3..13))
    @@ (16 :> (4..13))

\* The address bits the asserts of read16 .. read128 and write16 .. write128
\* want clear (addr & 1, addr & 3, addr & 7, addr & 15); the byte accesses
\* have no assert.
AlignBits ==
    (1 :> {}) @@ (2 :> {0}) @@ (4 :> {0, 1}) @@ (8 :> (0..2)) @@ (16 :> (0..3))

\* translateAddr: the physical address as a number, or -1 for the region the
\* code gives up on (addr >= 0xFFFF8000).
translateAddr(addr) == IF (15..31) \subseteq addr THEN -1 ELSE Val(addr \cap (0..28))

\* 0x2000000, MemorySize::RAM
RAMSize == 33554432

\* ps2::bus::read8 .. read128 and write8 .. write128 of the EE bus.  Main RAM
\* is modelled; an access to any other region ends the run.
busRead(m, paddr, n) ==
    IF paddr >= 0 /\ paddr < RAMSize THEN ReadBytes(m.ram, paddr, n) ELSE {}

busWrite(m, paddr, n, data) ==
    IF paddr >= 0 /\ paddr < RAMSize
    THEN [m EXCEPT !.ram = WriteBytes(@, paddr, n, data)]
    ELSE Abort(m, "exit")

\* read8 .. read128 of the EE Core: the state after the read (the access is
\* logged, a failed assert or an exit ends the run) and the value read.
eeReadDone(m, addr, n) ==
    IF addr \cap AlignBits[n] # {}
    THEN Abort(m, "assert")
    ELSE IF addr \cap (28..31) = {28, 29, 30}
    THEN [m EXCEPT !.acc = Append(@, [kind |-> "read", width |-> n, addr |-> addr,
             bus |-> FALSE, ram |-> m.ram,
             data |-> ReadBytes(m.spram, Val(addr \cap SPRAMMask[n]), n)])]
    ELSE IF translateAddr(addr) < 0 \/ translateAddr(addr) >= RAMSize
    THEN Abort(m, "exit")
    ELSE [m EXCEPT !.acc = Append(@, [kind |-> "read", width |-> n, addr |-> addr,
             bus |-> TRUE, ram |-> m.ram,
             data |-> busRead(m, translateAddr(addr), n)])]

eeReadValue(m, addr, n) ==
    IF addr \cap (28..31) = {28, 29, 30}
    THEN ReadBytes(m.spram, Val(addr \cap SPRAMMask[n]), n)
    ELSE busRead(m, translateAddr(addr), n)

\* write8 .. write128 of the EE Core; data is truncated to the width.
eeWrite(m, addr, n, data) ==
    IF addr \cap AlignBits[n] # {}
    THEN Abort(m, "assert")
    ELSE LET d == data \cap (0..(8 * n - 1))
             m1 == [m EXCEPT !.acc = Append(@, [kind |-> "write", width |-> n,
                       addr |-> addr, data |-> data, ram |-> m.ram,
                       bus |-> addr \cap (28..31) # {28, 29, 30}])]
         IN IF addr \cap (28..31) = {28, 29, 30}
            THEN [m1 EXCEPT !.spram = WriteBytes(@, Val(addr \cap SPRAMMask[n]), n, d)]
            ELSE IF translateAddr(addr) < 0 THEN Abort(m, "exit")
            ELSE busWrite(m1, translateAddr(addr), n, d)

(* ------------------------ EE Core: instructions ----------------------- *)

\* primary opcodes, SPECIAL functions and MMI functions
SPECIAL == 0
J == 2
JAL == 3
BEQ == 4
BNE == 5
ADDIU == 9
ORI == 13
LUI == 15
BEQL == 20
BNEL == 21
MMI == 28
LQ == 30
LW == 35
LWU == 39
JR == 8
JALR == 9
MMI3 == 41
PAND == 18

getOpcode(instr) == Field(instr, 26, 31)
getFunct(instr) == Field(instr, 0, 5)
getShamt(instr) == Field(instr, 6, 10)
getImm(instr) == instr \cap (0..15)
getOffset(instr) == instr \cap (0..25)
getRd(instr) == Field(instr, 11, 15)
getRs(instr) == Field(instr, 21, 25)
getRt(instr) == Field(instr, 16, 20)

\* regs[idx]._u32[0]
eeLow32(m, idx) == m.ee.regs[idx].lo \cap (0..31)

\* pc + ((i32)(i16)getImm(instr) << 2)
eeBranchTarget(m, instr) ==
    Add32(m.ee.pc, Shl(SignExt(getImm(instr), 16, 32), 2, 32))

\* (pc & 0xF0000000) | (getOffset(instr) << 2)
eeJumpTarget(m, instr) ==
    (m.ee.pc \cap (28..31)) \cup Shl(getOffset(instr), 2, 32)

ee_iADDIU(m, instr) ==
    eeSet32(m, getRt(instr),
            Add32(eeLow32(m, getRs(instr)), SignExt(getImm(instr), 16, 32)))

ee_iBEQ(m, instr) ==
    eeDoBranch(m, eeBranchTarget(m, instr),
               m.ee.regs[getRs(instr)].lo = m.ee.regs[getRt(instr)].lo, 0, FALSE)

ee_iBEQL(m, instr) ==
    eeDoBranch(m, eeBranchTarget(m, instr),
               m.ee.regs[getRs(instr)].lo = m.ee.regs[getRt(instr)].lo, 0, TRUE)

ee_iBNE(m, instr) ==
    eeDoBranch(m, eeBranchTarget(m, instr),
               m.ee.regs[getRs(instr)].lo # m.ee.regs[getRt(instr)].lo, 0, FALSE)

ee_iBNEL(m, instr) ==
    eeDoBranch(m, eeBranchTarget(m, instr),
               m.ee.regs[getRs(instr)].lo # m.ee.regs[getRt(instr)].lo, 0, TRUE)

ee_iJ(m, instr) == eeDoBranch(m, eeJumpTarget(m, instr), TRUE, 0, FALSE)

ee_iJAL(m, instr) == eeDoBranch(m, eeJumpTarget(m, instr), TRUE, RA, FALSE)

ee_iJALR(m, instr) ==
    eeDoBranch(m, eeLow32(m, getRs(instr)), TRUE, getRd(instr), FALSE)

ee_iJR(m, instr) == eeDoBranch(m, eeLow32(m, getRs(instr)), TRUE, 0, FALSE)

ee_iLQ(m, instr) ==
    LET addr == Add32(eeLow32(m, getRs(instr)), SignExt(getImm(instr), 16, 32))
        m1 == eeReadDone(m, addr, 16)
        data == eeReadValue(m, addr, 16)
    IN IF addr \cap (0..3) # {} THEN Abort(m, "exit")
       ELSE IF ~Alive(m1) THEN m1
       ELSE eeSet128(m1, getRt(instr),
                     [lo |-> data \cap (0..63), hi |-> {b - 64 : b \in data \cap (64..127)}])

\* iLW and iLWU: the word is stored through set32 by LW and through set64,
\* zero-extended, by LWU.
ee_iLW(m, instr) ==
    LET addr == Add32(eeLow32(m, getRs(instr)), SignExt(getImm(instr), 16, 32))
        m1 == eeReadDone(m, addr, 4)
    IN IF addr \cap (0..1) # {} THEN Abort(m, "exit")
       ELSE IF ~Alive(m1) THEN m1
       ELSE eeSet32(m1, getRt(instr), eeReadValue(m, addr, 4))

ee_iLWU(m, instr) ==
    LET addr == Add32(eeLow32(m, getRs(instr)), SignExt(getImm(instr), 16, 32))
        m1 == eeReadDone(m, addr, 4)
    IN IF addr \cap (0..1) # {} THEN Abort(m, "exit")
       ELSE IF ~Alive(m1) THEN m1
       ELSE eeSet64(m1, getRt(instr), eeReadValue(m, addr, 4))

ee_iLUI(m, instr) ==
    eeSet64(m, getRt(instr), Shl(SignExt(getImm(instr), 16, 64), 16, 64))

ee_iORI(m, instr) ==
    eeSet64(m, getRt(instr), m.ee.regs[getRs(instr)].lo \cup getImm(instr))

ee_iPAND(m, instr) ==
    eeSet128(m, getRd(instr),
             [lo |-> m.ee.regs[getRs(instr)].lo \cap m.ee.regs[getRt(instr)].lo,
              hi |-> m.ee.regs[getRs(instr)].hi \cap m.ee.regs[getRt(instr)].hi])

\* decodeInstr, for the instructions above; the code exits on an opcode it
\* does not know.
eeDecodeInstr(m, instr) ==
    LET opcode == getOpcode(instr)
        funct == getFunct(instr)
    IN CASE opcode = SPECIAL /\ funct = JR -> ee_iJR(m, instr)
         [] opcode = SPECIAL /\ funct = JALR -> ee_iJALR(m, instr)
         [] opcode = J -> ee_iJ(m, instr)
         [] opcode = JAL -> ee_iJAL(m, instr)
         [] opcode = BEQ -> ee_iBEQ(m, instr)
         [] opcode = BNE -> ee_iBNE(m, instr)
         [] opcode = ADDIU -> ee_iADDIU(m, instr)
         [] opcode = ORI -> ee_iORI(m, instr)
         [] opcode = LUI -> ee_iLUI(m, instr)
         [] opcode = BEQL -> ee_iBEQL(m, instr)
         [] opcode = BNEL -> ee_iBNEL(m, instr)
         [] opcode = MMI /\ funct = MMI3 /\ getShamt(instr) = PAND -> ee_iPAND(m, instr)
         [] opcode = LQ -> ee_iLQ(m, instr)
         [] opcode = LW -> ee_iLW(m, instr)
         [] opcode = LWU -> ee_iLWU(m, instr)
         [] OTHER -> Abort(m, "exit")

\* fetchInstr: the word read at cpc is an input of the step (the BIOS image
\* is not part of the state); the PC advances.
eeFetchInstr(m) == eeStepPC(m)

\* ps2::ee::cpu::init
eeInit(m) ==
    eeSetPC([m EXCEPT !.ee.regs = [i \in 0..33 |-> [lo |-> {}, hi |-> {}]]],
            RESET_VECTOR)

\* One iteration of the loop of ps2::ee::cpu::step, executing the word instr.
\* inDelaySlot is a two-element array: inDelaySlot[1] here is inDelaySlot[0]
\* of the code and inDelaySlot[2] is its inDelaySlot[1].
eeStep(m, instr) ==
    LET m1 == [m EXCEPT !.ee.cpc = m.ee.pc,
                        !.ee.inDelaySlot = <<m.ee.inDelaySlot[2], FALSE>>]
        m2 == [eeFetchInstr(m1) EXCEPT
                  !.hist = Append(@, [cpu |-> "EE", cpc |-> m1.ee.cpc, instr |-> instr,
                                      slot |-> m1.ee.inDelaySlot[1],
                                      pc |-> m1.ee.npc,
                                      npc |-> Add32(m1.ee.npc, {2}),
                                      regs |-> m.ee.regs])]
    IN eeDecodeInstr(m2, instr)

(* --------------------------------- IOP -------------------------------- *)

\* set: the registers are 32 bits wide
\* A set that stores into register 0 like into any other register.
iopSet_keepR0(m, idx, data) == [m EXCEPT !.iop.regs[idx] = data \cap (0..31)]

iopSet(m, idx, data) ==
    [m EXCEPT !.iop.regs = [[@ EXCEPT ![idx] = data \cap (0..31)] EXCEPT ![0] = {}]]

iopSetPC(m, addr) ==
    IF addr = {} THEN Abort(m, "jump to 0")
    ELSE IF addr \cap {0, 1} # {} THEN Abort(m, "misaligned PC")
    ELSE [m EXCEPT !.iop.pc = addr, !.iop.npc = Add32(addr, {2})]

iopSetBranchPC(m, addr) ==
    IF addr = {} THEN Abort(m, "jump to 0")
    ELSE IF addr \cap {0, 1} # {} THEN Abort(m, "misaligned PC")
    ELSE [m EXCEPT !.iop.npc = addr]

iopStepPC(m) == [m EXCEPT !.iop.pc = m.iop.npc, !.iop.npc = Add32(m.iop.npc, {2})]

iopDoBranch(m, target, isCond, rd) ==
    IF m.iop.inDelaySlot[1] THEN Abort(m, "branch in delay slot")
    ELSE LET m1 == iopSet(m, rd, m.iop.npc)
             m2 == [m1 EXCEPT !.iop.inDelaySlot[2] = TRUE]
         IN IF isCond THEN iopSetBranchPC(m2, target) ELSE m2

iopBranchTarget(m, instr) ==
    Add32(m.iop.pc, Shl(SignExt(getImm(instr), 16, 32), 2, 32))

iopJumpTarget(m, instr) ==
    (m.iop.pc \cap (28..31)) \cup Shl(getOffset(instr), 2, 32)

iop_iBEQ(m, instr) ==
    iopDoBranch(m, iopBranchTarget(m, instr),
                m.iop.regs[getRs(instr)] = m.iop.regs[getRt(instr)], 0)

iop_iBNE(m, instr) ==
    iopDoBranch(m, iopBranchTarget(m, instr),
                m.iop.regs[getRs(instr)] # m.iop.regs[getRt(instr)], 0)

iop_iJ(m, instr) == iopDoBranch(m, iopJumpTarget(m, instr), TRUE, 0)

iop_iJAL(m, instr) == iopDoBranch(m, iopJumpTarget(m, instr), TRUE, RA)

iop_iJALR(m, instr) == iopDoBranch(m, m.iop.regs[getRs(instr)], TRUE, getRd(instr))

iop_iJR(m, instr) == iopDoBranch(m, m.iop.regs[getRs(instr)], TRUE, 0)

iop_iLUI(m, instr) ==
    iopSet(m, getRt(instr), Shl(SignExt(getImm(instr), 16, 32), 16, 32))

iop_iORI(m, instr) ==
    iopSet(m, getRt(instr), m.iop.regs[getRs(instr)] \cup getImm(instr))

\* ps2::iop::init
iopInit(m) ==
    iopSetPC([m EXCEPT !.iop.regs = [i \in 0..33 |-> {}]], RESET_VECTOR)

(* --------------------------- IOP bus: memory -------------------------- *)

\* MemorySizeIOP::RAM and the size of iopSPRAM
IOPRAMSize == 2097152
IOPSPRAMSize == 1024

\* Cache Control, SPRAM End and SPRAM Start, as the bus sees them
CacheControl == 536740144
SPRAMEndReg == 536740160
SPRAMStartReg == 536740164

\* a < b for unsigned 32-bit values
ULt(a, b) == \E i \in b \ a : \A j \in (i + 1)..31 : (j \in a) <=> (j \in b)

\* (addr >= spramStart) && (addr < spramEnd)
InWindow(m, addr) ==
    ~ULt(BitsOf(addr), m.spramStart) /\ ULt(BitsOf(addr), m.spramEnd)

\* IOP RAM is kept by words; the byte at address a and the n bytes from a.
WordOf(a) == a - (a % 4)

LaneOf(a) == (8 * (a % 4))..(8 * (a % 4) + 7)

ramByte(m, a) == {b - 8 * (a % 4) : b \in readDMAC32(m, WordOf(a)) \cap LaneOf(a)}

ramRead(m, a, n) == UNION {{b + 8 * k : b \in ramByte(m, a + k)} : k \in 0..(n - 1)}

ramWriteByte(m, a, byte) ==
    [m EXCEPT !.iopRAM =
        (WordOf(a) :> ((readDMAC32(m, WordOf(a)) \ LaneOf(a))
                       \cup {b + 8 * (a % 4) : b \in byte})) @@ @]

RECURSIVE ramWrite(_, _, _, _)
ramWrite(m, a, n, data) ==
    IF n = 0 THEN m
    ELSE ramWrite(ramWriteByte(m, a, data \cap (0..7)), a + 1, n - 1,
                  {b - 8 : b \in data \ (0..7)})

\* readIOP8 / readIOP16 / readIOP32 for RAM, the scratchpad window and the
\* addresses the code gives up on: the value read, and whether the read
\* returns at all.  (The device ranges tested before the window are not
\* modelled.)  An index past the end of iopSPRAM is undefined behaviour.
readIOPFault(m, addr, n) ==
    IF addr < IOPRAMSize THEN "none"
    ELSE IF InWindow(m, addr)
    THEN IF addr - Val(m.spramStart) + n > IOPSPRAMSize THEN "undefined" ELSE "none"
    ELSE "exit"

readIOP(m, addr, n) ==
    IF addr < IOPRAMSize THEN ramRead(m, addr, n)
    ELSE ReadBytes(m.iopSPRAM, addr - Val(m.spramStart), n)

\* writeIOP8: the scratchpad store is iopSPRAM[addr] = data, indexed by the
\* address itself, which is past the end of the array for every address
\* outside RAM: undefined behaviour.  ub is what the build makes of it:
\* "crash", or "stray" for a store that lands outside the scratchpad.
writeIOP8(m, addr, data, ub) ==
    IF addr < IOPRAMSize THEN ramWrite(m, addr, 1, data \cap (0..7))
    ELSE IF InWindow(m, addr)
    THEN IF addr >= IOPSPRAMSize
         THEN (IF ub = "crash" THEN Abort(m, "undefined") ELSE m)
         ELSE [m EXCEPT !.iopSPRAM = WriteBytes(@, addr, 1, data \cap (0..7))]
    ELSE Abort(m, "exit")

\* writeIOP16
writeIOP16(m, addr, data, ub) ==
    IF addr < IOPRAMSize THEN ramWrite(m, addr, 2, data \cap (0..15))
    ELSE IF InWindow(m, addr)
    THEN IF addr - Val(m.spramStart) + 2 > IOPSPRAMSize
         THEN (IF ub = "crash" THEN Abort(m, "undefined") ELSE m)
         ELSE [m EXCEPT !.iopSPRAM =
                  WriteBytes(@, addr - Val(m.spramStart), 2, data \cap (0..15))]
    ELSE Abort(m, "exit")

\* writeIOP32
writeIOP32(m, addr, data, ub) ==
    IF addr < IOPRAMSize THEN ramWrite(m, addr, 4, data \cap (0..31))
    ELSE IF InWindow(m, addr)
    THEN IF addr - Val(m.spramStart) + 4 > IOPSPRAMSize
         THEN (IF ub = "crash" THEN Abort(m, "undefined") ELSE m)
         ELSE [m EXCEPT !.iopSPRAM =
                  WriteBytes(@, addr - Val(m.spramStart), 4, data \cap (0..31))]
    ELSE CASE addr = CacheControl -> m
           [] addr = SPRAMEndReg -> [m EXCEPT !.spramEnd = data \cap (0..31)]
           [] addr = SPRAMStartReg -> [m EXCEPT !.spramStart = data \cap (0..31)]
           [] OTHER -> Abort(m, "exit")

writeIOP(m, addr, n, data, ub) ==
    CASE n = 1 -> writeIOP8(m, addr, data, ub)
      [] n = 2 -> writeIOP16(m, addr, data, ub)
      [] n = 4 -> writeIOP32(m, addr, data, ub)

(* ------------------------ IOP: memory instructions -------------------- *)

COP0 == 16
MT == 4
Status == 12
LB == 32
SB == 40
SH == 41
SW == 43

\* cop0::set and cop0::isCacheIsolated: the Status register and its
\* "cache isolated" bit (bit 16).
cop0Set(m, idx, data) ==
    IF idx = Status THEN [m EXCEPT !.iop.status = data \cap (0..31)]
    ELSE Abort(m, "exit")

isCacheIsolated(m) == 16 \in m.iop.status

\* cop0::Exception::SystemCall and the SPECIAL function SYSCALL
SystemCall == 8
SYSCALL == 12

\* cop0::enterException: the exception code goes to Cause bits 2..6 and the
\* interrupt-enable / kernel-user stack in Status bits 0..5 is pushed.
enterException(m, e) ==
    [m EXCEPT !.iop.cause = (@ \ (2..6)) \cup Shl(BitsOf(e), 2, 32),
              !.iop.status = (@ \ (0..5)) \cup {b + 2 : b \in @ \cap (0..3)}]

\* cop0::isBEV: Status bit 22
isBEV(m) == 22 \in m.iop.status

\* cop0::setBD: Cause bit 31
setBD(m, bd) ==
    [m EXCEPT !.iop.cause = IF bd THEN @ \cup {31} ELSE @ \ {31}]

setEPC(m, pc) == [m EXCEPT !.iop.epc = pc]

\* A raiseException that stores cpc whether or not it is a delay slot.
raiseException_cpc(m, e) ==
    LET m1 == enterException(m, e)
        vector == IF isBEV(m1) THEN RESET_VECTOR \cup {7, 8} ELSE {7, 31}
        m2 == setEPC(setBD(m1, m1.iop.inDelaySlot[1]), m1.iop.cpc)
    IN iopSetPC([m2 EXCEPT !.iop.inDelaySlot = <<FALSE, FALSE>>], vector)

\* raiseException: the vectors are 0xBFC00180 and 0x80000080; cpc - 4 is
\* cpc + 0xFFFFFFFC in 32 bits.
raiseException(m, e) ==
    LET m1 == enterException(m, e)
        vector == IF isBEV(m1) THEN RESET_VECTOR \cup {7, 8} ELSE {7, 31}
        m2 == setBD(m1, m1.iop.inDelaySlot[1])
        m3 == IF m2.iop.inDelaySlot[1]
              THEN setEPC(m2, Add32(m2.iop.cpc, 2..31))
              ELSE setEPC(m2, m2.iop.cpc)
    IN iopSetPC([m3 EXCEPT !.iop.inDelaySlot = <<FALSE, FALSE>>], vector)

iop_iSYSCALL(m) == raiseException(m, SystemCall)

\* regs[rs] + (i32)(i16)getImm(instr)
iopAddr(m, instr) ==
    Add32(m.iop.regs[getRs(instr)], SignExt(getImm(instr), 16, 32))

\* read8 of the IOP: bus::readIOP8(addr & 0x1FFFFFFF)
iopRead8Fault(m, addr) == readIOPFault(m, Val(addr \cap (0..28)), 1)

iopRead8(m, addr) == readIOP(m, Val(addr \cap (0..28)), 1)

\* write8 / write16 / write32 of the IOP
iopWrite(m, addr, n, data, ub) ==
    IF n > 1 /\ addr \cap AlignBits[n] # {} THEN Abort(m, "assert")
    ELSE writeIOP(m, Val(addr \cap (0..28)), n, data, ub)

iop_iLB(m, instr) ==
    LET addr == iopAddr(m, instr)
    IN IF isCacheIsolated(m) THEN Abort(m, "assert")
       ELSE IF iopRead8Fault(m, addr) # "none" THEN Abort(m, iopRead8Fault(m, addr))
       ELSE iopSet(m, getRt(instr), SignExt(iopRead8(m, addr), 8, 32))

iop_iMTC(m, instr) == cop0Set(m, getRd(instr), m.iop.regs[getRt(instr)])

iop_iSB(m, instr, ub) ==
    IF isCacheIsolated(m) THEN m
    ELSE iopWrite(m, iopAddr(m, instr), 1, m.iop.regs[getRt(instr)] \cap (0..7), ub)

iop_iSH(m, instr, ub) ==
    IF 0 \in iopAddr(m, instr) THEN Abort(m, "exit")
    ELSE IF isCacheIsolated(m) THEN m
    ELSE iopWrite(m, iopAddr(m, instr), 2, m.iop.regs[getRt(instr)] \cap (0..15), ub)

iop_iSW(m, instr, ub) ==
    IF iopAddr(m, instr) \cap {0, 1} # {} THEN Abort(m, "exit")
    ELSE IF isCacheIsolated(m) THEN m
    ELSE iopWrite(m, iopAddr(m, instr), 4, m.iop.regs[getRt(instr)], ub)

\* decodeInstr of the IOP, for the instructions above; the code exits on an
\* opcode it does not know.  ub is what the build makes of a store past the
\* end of the scratchpad array.
iopDecodeInstr(m, instr, ub) ==
    LET opcode == getOpcode(instr)
        funct == getFunct(instr)
    IN CASE opcode = SPECIAL /\ funct = JR -> iop_iJR(m, instr)
         [] opcode = SPECIAL /\ funct = JALR -> iop_iJALR(m, instr)
         [] opcode = SPECIAL /\ funct = SYSCALL -> iop_iSYSCALL(m)
         [] opcode = J -> iop_iJ(m, instr)
         [] opcode = JAL -> iop_iJAL(m, instr)
         [] opcode = BEQ -> iop_iBEQ(m, instr)
         [] opcode = BNE -> iop_iBNE(m, instr)
         [] opcode = ORI -> iop_iORI(m, instr)
         [] opcode = LUI -> iop_iLUI(m, instr)
         [] opcode = COP0 /\ getRs(instr) = MT -> iop_iMTC(m, instr)
         [] opcode = LB -> iop_iLB(m, instr)
         [] opcode = SB -> iop_iSB(m, instr, ub)
         [] opcode = SH -> iop_iSH(m, instr, ub)
         [] opcode = SW -> iop_iSW(m, instr, ub)
         [] OTHER -> Abort(m, "exit")

\* One iteration of the loop of ps2::iop::step, executing the word instr
\* (fetchInstr advances the PC; the word read at cpc is an input).
iopStep(m, instr, ub) ==
    LET m1 == [m EXCEPT !.iop.cpc = m.iop.pc,
                        !.iop.inDelaySlot = <<m.iop.inDelaySlot[2], FALSE>>]
        m2 == [iopStepPC(m1) EXCEPT
                  !.hist = Append(@, [cpu |-> "IOP", cpc |-> m1.iop.cpc, instr |-> instr,
                                      slot |-> m1.iop.inDelaySlot[1],
                                      pc |-> m1.iop.npc,
                                      npc |-> Add32(m1.iop.npc, {2}),
                                      regs |-> m.iop.regs,
                                      ram |-> m.iopRAM,
                                      isolated |-> isCacheIsolated(m),
                                      bev |-> isBEV(m)])]
    IN iopDecodeInstr(m2, instr, ub)

(* -------------------------------- CDVD -------------------------------- *)

\* N command, the bits of NCMDStatus and DriveStatus, the interrupt source
\* and the DMA channel of the drive
ReadCD == 6
READY == 6
BUSY == 7
SPINNING == 1
READING == 2
PAUSED == 3
SEEKING == 4
IOP_CDVD == 2
CDVD == 3

\* The read buffer holds the bytes of the disc image from readBase on
\* (readBase = -1: nothing has been read into it); a word read from it is
\* named by its offset in the image.  The two scheduler events of the drive
\* are kept as counts of pending events.  reads, last, irqs and cmds are
\* history: the reads since the last command, what the last read returned
\* and found, the interrupts since the last command and the commands so far.
setDriveStatus(m, stat) ==
    [m EXCEPT !.cdvd.drivestat = stat, !.cdvd.sdrivestat = @ \cup stat]

cdvdSendInterrupt(m) ==
    LET m1 == setDriveStatus(m, {PAUSED, SPINNING})
        m2 == [m1 EXCEPT !.cdvd.ncmdstat = {READY},
                         !.cdvd.istat = @ \cup {0, 1},
                         !.cdvd.irqs = @ + 1]
    IN sendInterruptIOP(m2, IOP_CDVD)

\* A doReadCD that reads the first sector of the command again.
doReadCD_firstSector(m) ==
    [setDriveStatus(m, {READING}) EXCEPT
        !.cdvd.readBase = m.cdvd.size * m.cdvd.pos,
        !.cdvd.readIdx = 0]

\* doReadCD: file.seekg(size * (pos + sectorNum)); file.read(readBuf, size)
doReadCD(m) ==
    [setDriveStatus(m, {READING}) EXCEPT
        !.cdvd.readBase = m.cdvd.size * (m.cdvd.pos + m.cdvd.sectorNum),
        !.cdvd.readIdx = 0]

finishSeekEvent(m) ==
    IF m.cdvd.ncmd # ReadCD THEN Abort(m, "exit")
    ELSE [doReadCD(m) EXCEPT !.cdvd.requestDMA = @ + 1]

requestDMAEvent(m) == setDRQ(m, CDVD, TRUE)

\* IOP_CLOCK, READ_SPEED_CD (24 * 153600), READ_SPEED_DVD (4 * 1382400) and
\* the N command ReadDVD
IOP_CLOCK == 36864000
READ_SPEED_CD == 3686400
READ_SPEED_DVD == 5529600
ReadDVD == 8

\* (a * b) / c in 64 bits, without the intermediate product:
\* a = q * c + r gives (a * b) / c = q * b + (r * b) / c.
MulDiv(a, b, c) == (a \div c) * b + ((a % c) * b) \div c

\* std::abs
Abs(x) == IF x < 0 THEN 0 - x ELSE x

getBlockTiming(m, isDVD) ==
    IF isDVD THEN MulDiv(IOP_CLOCK, m.cdvd.size, READ_SPEED_DVD)
    ELSE MulDiv(IOP_CLOCK, m.cdvd.size, READ_SPEED_CD)

\* A doSeek whose contiguous reads reach one sector further.
doSeek_lenient(m) ==
    LET delta == Abs(m.cdvd.pos - m.cdvd.oldSectorNum)
        seekCycles == IF delta <= 8 THEN getBlockTiming(m, FALSE) * delta
                      ELSE IF delta < 4371 THEN IOP_CLOCK \div 33
                      ELSE IOP_CLOCK \div 10
        m1 == [m EXCEPT !.cdvd.finishSeek = @ + 1,
                        !.cdvd.seekDelay = 8 * seekCycles]
    IN IF delta # 0
       THEN setDriveStatus(m1, {SEEKING, SPINNING})
       ELSE setDriveStatus(m1, {READING})

\* doSeek: the finish-seek event is kept as a count of pending events;
\* seekDelay is history, the delay handed to scheduler::addEvent.
doSeek(m) ==
    LET isDVD == m.cdvd.ncmd = ReadDVD
        delta == Abs(m.cdvd.pos - m.cdvd.oldSectorNum)
        seekCycles ==
            IF (isDVD /\ delta < 16) \/ (~isDVD /\ delta < 8)
            THEN getBlockTiming(m, isDVD) * delta
            ELSE IF (isDVD /\ delta < 14764) \/ (~isDVD /\ delta < 4371)
                 THEN IOP_CLOCK \div 33
                 ELSE IOP_CLOCK \div 10
        m1 == [m EXCEPT !.cdvd.finishSeek = @ + 1,
                        !.cdvd.seekDelay = 8 * seekCycles]
    IN IF delta # 0
       THEN setDriveStatus(m1, {SEEKING, SPINNING})
       ELSE setDriveStatus(m1, {READING})

\* ncmdReadCD: POS = NCMDPARAM[3:0], NUM = NCMDPARAM[7:4], two unused bytes,
\* the size byte
ncmdReadCD(m) ==
    LET p == m.cdvd.ncmdParam
        pos == p[1] + 256 * p[2] + 65536 * p[3] + 16777216 * p[4]
        num == p[5] + 256 * p[6] + 65536 * p[7] + 16777216 * p[8]
    IN IF Len(p) < 11 THEN Abort(m, "undefined")
       ELSE IF p[4] >= 128 THEN Abort(m, "assert")
       ELSE IF num = 0 THEN Abort(m, "assert")
       ELSE IF p[11] # 0 THEN Abort(m, "exit")
       ELSE doSeek([m EXCEPT !.cdvd.pos = pos, !.cdvd.num = num, !.cdvd.size = 2048,
                             !.cdvd.ncmdParam = SubSeq(p, 12, Len(p))])

doNCMD(m) ==
    LET m1 == [m EXCEPT !.cdvd.ncmdstat = {BUSY}]
    IN IF m.cdvd.ncmd = ReadCD THEN ncmdReadCD(m1) ELSE Abort(m1, "exit")

\* write, for NCMD and NCMDSTAT (the parameter queue)
cdvdWriteNCMD(m, data) ==
    doNCMD([m EXCEPT !.cdvd.ncmd = data, !.cdvd.reads = 0, !.cdvd.irqs = 0,
                     !.cdvd.cmds = @ + 1])

cdvdWriteNCMDPARAM(m, data) == [m EXCEPT !.cdvd.ncmdParam = Append(@, data)]

\* readDMAC: the word at readIdx of the buffer
readDMAC(m) ==
    LET size == IF m.cdvd.ncmd = ReadCD THEN m.cdvd.size ELSE 2064
        data == IF m.cdvd.readBase < 0 THEN -1 ELSE m.cdvd.readBase + m.cdvd.readIdx
        m1 == [m EXCEPT !.cdvd.readIdx = @ + 4,
                        !.cdvd.reads = @ + 1,
                        !.cdvd.last = [data |-> data, irqs |-> m.cdvd.irqs,
                                       ncmdstat |-> m.cdvd.ncmdstat]]
    IN IF m.cdvd.readIdx + 4 > 2064 THEN Abort(m, "undefined")
       ELSE IF m1.cdvd.readIdx # size THEN m1
       ELSE LET m2 == [m1 EXCEPT
                         !.cdvd.delivered = m.cdvd.readBase \div size,
                         !.cdvd.oldSectorNum = m.cdvd.pos + m.cdvd.sectorNum,
                         !.cdvd.sectorNum = @ + 1]
            IN IF m2.cdvd.sectorNum = m2.cdvd.num
               THEN cdvdSendInterrupt([m2 EXCEPT !.cdvd.sectorNum = 0])
               ELSE finishSeekEvent(m2)

\* S commands, the subcommand MechaconVersion and the bit NODATA of
\* SCMDStatus
Subcommand == 3
UpdateStickyFlags == 5
ReadRTC == 8
MechaconVersion == 0
NODATA == 6

\* scmdData and scmdParam are std::queue<u8>; pushed and popped are history,
\* every byte pushed to scmdData and every byte SCMDDATA has returned.
\* front() and pop() of an empty queue are undefined: underrun says that one
\* has happened and the program went on, after which nothing is known of
\* the queue.
scmdPush(m, bytes) ==
    IF m.cdvd.underrun THEN Abort(m, "undefined")
    ELSE [m EXCEPT !.cdvd.scmdData = @ \o bytes, !.cdvd.pushed = @ \o bytes]

scmdHasData(m) == [m EXCEPT !.cdvd.scmdstat = @ \ {NODATA}]

scmdMechaconVersion(m) == scmdHasData(scmdPush(m, <<3, 6, 2, 0>>))

scmdReadRTC(m) == scmdHasData(scmdPush(m, <<0, 0, 0, 0, 0, 1, 0, 0>>))

scmdUpdateStickyFlags(m) ==
    scmdHasData(scmdPush([m EXCEPT !.cdvd.sdrivestat = m.cdvd.drivestat], <<0>>))

\* doSCMD; ub is what the build makes of front() and pop() of an empty
\* parameter queue: the process is lost, or a stray byte is the subcommand.
doSCMD(m, ub, stray) ==
    CASE m.cdvd.scmd = Subcommand ->
            IF m.cdvd.scmdParam = <<>>
            THEN IF ub = "crash" THEN Abort(m, "undefined")
                 ELSE IF stray = MechaconVersion
                      THEN scmdMechaconVersion([m EXCEPT !.cdvd.underrun = TRUE])
                      ELSE Abort(m, "exit")
            ELSE LET subcommand == Head(m.cdvd.scmdParam)
                     m1 == [m EXCEPT !.cdvd.scmdParam = Tail(@)]
                 IN IF subcommand = MechaconVersion THEN scmdMechaconVersion(m1)
                    ELSE Abort(m1, "exit")
      [] m.cdvd.scmd = UpdateStickyFlags -> scmdUpdateStickyFlags(m)
      [] m.cdvd.scmd = ReadRTC -> scmdReadRTC(m)
      [] OTHER -> Abort(m, "exit")

\* write, for SCMD and SCMDSTAT (the parameter queue)
cdvdWriteSCMD(m, data, ub, stray) == doSCMD([m EXCEPT !.cdvd.scmd = data], ub, stray)

cdvdWriteSCMDPARAM(m, data) == [m EXCEPT !.cdvd.scmdParam = Append(@, data)]

\* read, for SCMDDATA; ub is what the build makes of front() and pop() of an
\* empty queue: the process is lost, or a stray byte is returned and size()
\* is no longer 0, so that NODATA is left as it was.
cdvdReadSCMDDATA(m, ub, stray) ==
    IF m.cdvd.underrun THEN Abort(m, "undefined")
    ELSE IF m.cdvd.scmdData = <<>>
    THEN IF ub = "crash" THEN Abort(m, "undefined")
         ELSE [m EXCEPT !.cdvd.popped = Append(@, stray), !.cdvd.underrun = TRUE]
    ELSE LET m1 == [m EXCEPT !.cdvd.popped = Append(@, Head(m.cdvd.scmdData)),
                             !.cdvd.scmdData = Tail(@)]
         IN IF m1.cdvd.scmdData = <<>>
            THEN [m1 EXCEPT !.cdvd.scmdstat = @ \cup {NODATA}]
            ELSE m1

(* ------------------------------ SIF mailbox --------------------------- *)

\* SIFReg
MSCOM == 0
SMCOM == 16
MSFLG == 32
SMFLG == 48
SIFCTRL == 64
BD6 == 96

\* sif::write, the EE side
sifWrite(m, addr, data) ==
    LET reg == addr % 256
    IN CASE reg = MSCOM -> [m EXCEPT !.sif.mscom = data]
         [] reg = MSFLG -> [m EXCEPT !.sif.msflg = @ \cup data]
         [] reg = SMFLG -> [m EXCEPT !.sif.smflg = @ \ data]
         [] reg = SIFCTRL -> m
         [] reg = BD6 -> [m EXCEPT !.sif.bd6 = data]
         [] OTHER -> Abort(m, "exit")

\* A writeIOP that overwrites MSFLG.
sifWriteIOP_assign(m, addr, data) ==
    LET reg == addr % 256
    IN CASE reg = SMCOM -> [m EXCEPT !.sif.smcom = data]
         [] reg = MSFLG -> [m EXCEPT !.sif.msflg = data]
         [] reg = SMFLG -> [m EXCEPT !.sif.smflg = @ \cup data]
         [] reg = SIFCTRL -> m
         [] OTHER -> Abort(m, "exit")

\* sif::writeIOP, the IOP side
sifWriteIOP(m, addr, data) ==
    LET reg == addr % 256
    IN CASE reg = SMCOM -> [m EXCEPT !.sif.smcom = data]
         [] reg = MSFLG -> [m EXCEPT !.sif.msflg = @ \ data]
         [] reg = SMFLG -> [m EXCEPT !.sif.smflg = @ \cup data]
         [] reg = SIFCTRL -> m
         [] OTHER -> Abort(m, "exit")

(* --------------------------------- GIF -------------------------------- *)

\* Format
PACKED == 0
REGLIST == 1
IMAGE == 2

\* A quadword is the set of its bits 0..127.  gif.cnloop and gif.cnregs are
\* the counters nloop and nregs of the code (gif.nloop and gif.nregs are the
\* fields of gifTag).  History: tags counts the tags decoded, routed lists
\* the register of every data quadword since the last tag, asTag says that
\* the last quadword was decoded as a tag and due that it came when no data
\* of a tag was outstanding.
decodeTag(m, data) ==
    LET nloop == Field(data, 0, 14)
        nregs == Field(data, 60, 63)
        flg == Field(data, 58, 59)
        m1 == [m EXCEPT !.gif.nloop = nloop,
                        !.gif.eop = 15 \in data,
                        !.gif.prim = 46 \in data,
                        !.gif.pdata = Field(data, 47, 57),
                        !.gif.nregs = IF nregs = 0 THEN 16 ELSE nregs,
                        !.gif.regs = {b - 64 : b \in data \cap (64..127)},
                        !.gif.tags = @ + 1,
                        !.gif.routed = <<>>]
    IN IF nloop = 0 THEN Abort(m1, "assert")
       ELSE [m1 EXCEPT !.gif.fmt = IF flg = 0 THEN PACKED
                                   ELSE IF flg = 1 THEN REGLIST ELSE IMAGE,
                       !.gif.hasTag = TRUE]

\* A doPACKED that takes the register nibbles from the top of REGS.
doPACKED_topDown(m, data) ==
    LET reg == Field(m.gif.regs, 4 * (15 - m.gif.cnregs), 4 * (15 - m.gif.cnregs) + 3)
        m1 == [m EXCEPT !.gif.routed = Append(@, reg), !.gif.cnregs = @ + 1]
    IN IF m1.gif.cnregs = m1.gif.nregs
       THEN [m1 EXCEPT !.gif.cnloop = @ - 1,
                       !.gif.hasTag = m1.gif.cnloop - 1 # 0,
                       !.gif.cnregs = 0]
       ELSE m1

\* doPACKED: the register is printed, the write to the GS is still to do.
doPACKED(m, data) ==
    LET reg == Field(m.gif.regs, 4 * m.gif.cnregs, 4 * m.gif.cnregs + 3)
        m1 == [m EXCEPT !.gif.routed = Append(@, reg), !.gif.cnregs = @ + 1]
    IN IF m1.gif.cnregs = m1.gif.nregs
       THEN [m1 EXCEPT !.gif.cnloop = @ - 1,
                       !.gif.hasTag = m1.gif.cnloop - 1 # 0,
                       !.gif.cnregs = 0]
       ELSE m1

doIMAGE(m, data) ==
    [m EXCEPT !.gif.cnloop = @ - 1, !.gif.hasTag = m.gif.cnloop - 1 # 0]

doCmd(m, data) ==
    LET m0 == [m EXCEPT !.gif.asTag = ~m.gif.hasTag,
                        !.gif.due = m.gif.tags = 0 \/
                                    Len(m.gif.routed) = m.gif.nloop * m.gif.nregs]
    IN IF ~m0.gif.hasTag
       THEN LET m1 == decodeTag(m0, data)
            IN IF ~Alive(m1) THEN m1
               ELSE IF m1.gif.prim THEN Abort(m1, "assert")
               ELSE [m1 EXCEPT !.gif.cnloop = m1.gif.nloop, !.gif.cnregs = 0]
       ELSE CASE m0.gif.fmt = PACKED -> doPACKED(m0, data)
              [] m0.gif.fmt = IMAGE -> doIMAGE(m0, data)
              [] OTHER -> Abort(m0, "exit")

(* -------------------------------- boot -------------------------------- *)

\* Globals as the loader zeroes them and as the init() functions leave them,
\* before gs::init() queues the first HBLANK.
Zero ==
    [events |-> <<>>, cycleCount |-> 0, cyclesUntilNextEvent |-> 0,
     csr |-> {}, lineCounter |-> 0,
     timers |-> [i \in 0..3 |-> [cue |-> FALSE, clks |-> 0, count |-> 0,
                                 comp |-> 0, cmpe |-> FALSE, equf |-> FALSE,
                                 zret |-> FALSE, ovfe |-> FALSE, ovff |-> FALSE]],
     intcMASK |-> {}, intcSTAT |-> {}, iMASK |-> {}, iSTAT |-> {},
     iCTRL |-> FALSE, interruptPending |-> FALSE,
     channels |-> [i \in 0..13 |->
                     [dec |-> FALSE, tte |-> FALSE, str |-> FALSE, fst |-> FALSE,
                      madr |-> 0, tadr |-> 0, len |-> 0,
                      drq |-> i \in {0, 2, SIF0, 11}, isTagEnd |-> FALSE]],
     dicr |-> [sie |-> {}, bef |-> FALSE, im |-> {}, mie |-> FALSE,
               ip |-> {}, mif |-> FALSE],
     dicr2 |-> [tie |-> {}, im |-> {}, ip |-> {}],
     dpcr |-> {}, dpcr2 |-> {}, dmacen |-> FALSE,
     sif0 |-> <<>>, iopRAM |-> << >>,
     eeDrq |-> {0, 1, 2, 4, 6, 7, 8, 9}, eeStr |-> {}, dmae |-> FALSE,
     enable |-> {0, 9, 12},
     eeMadr |-> [i \in 0..9 |-> {}],
     ee |-> [regs |-> [i \in 0..33 |-> [lo |-> {}, hi |-> {}]], pc |-> {}, cpc |-> {}, npc |-> {}, inDelaySlot |-> <<FALSE, FALSE>>],
     hist |-> <<>>,
     spram |-> << >>,
     ram |-> << >>,
     acc |-> <<>>,
     iop |-> [regs |-> [i \in 0..33 |-> {}], pc |-> {}, cpc |-> {}, npc |-> {},
             inDelaySlot |-> <<FALSE, FALSE>>, status |-> {},
             cause |-> {}, epc |-> {}],
     iopSPRAM |-> << >>,
     spramStart |-> 0..31,
     spramEnd |-> 0..31,
     cdvd |-> [ncmd |-> 0, ncmdstat |-> {6}, ncmdParam |-> <<>>, drivestat |-> {3}, sdrivestat |-> {3}, istat |-> {}, pos |-> 0, num |-> 0, size |-> 0, sectorNum |-> 0, oldSectorNum |-> 0, readBase |-> -1, readIdx |-> 0, finishSeek |-> 0, requestDMA |-> 0, seekDelay |-> 0, delivered |-> -1, scmdstat |-> {6}, scmd |-> 0, scmdData |-> <<>>, scmdParam |-> <<>>, pushed |-> <<>>, popped |-> <<>>, underrun |-> FALSE, reads |-> 0, last |-> [data |-> -1, irqs |-> 0, ncmdstat |-> {}], irqs |-> 0, cmds |-> 0],
     loop |-> [ee |-> 0, iop |-> 0],
     io |-> [data |-> {}, ret |-> FALSE, iSTAT |-> {}, iMASK |-> {}, iCTRL |-> FALSE, intcSTAT |-> {}, intcMASK |-> {}],
     eePcr |-> [cde |-> {}, pce |-> FALSE],
     sent |-> <<>>,
     gif |-> [nloop |-> 0, eop |-> FALSE, prim |-> FALSE, pdata |-> 0, nregs |-> 0, regs |-> {}, fmt |-> 0, hasTag |-> FALSE, cnloop |-> 0, cnregs |-> 0, tags |-> 0, routed |-> <<>>, asTag |-> FALSE, due |-> TRUE],
     sif |-> [mscom |-> {}, msflg |-> {}, smcom |-> {}, smflg |-> {}, bd6 |-> {}],
     fault |-> "none",
     now |-> 0, hblanks |-> 0, fired |-> <<>>, bursts |-> <<>>,
     pushLog |-> <<>>, pulled |-> <<>>, chainStart |-> 0, snaps |-> <<>>,
     lastOp |-> "init"]

\* gs::init()
Boot == addEvent(Zero, idHBLANK, 0, CYCLES_PER_SCANLINE, TRUE)

Start(m) ==
    /\ events = m.events
    /\ cycleCount = m.cycleCount
    /\ cyclesUntilNextEvent = m.cyclesUntilNextEvent
    /\ csr = m.csr
    /\ lineCounter = m.lineCounter
    /\ timers = m.timers
    /\ intcMASK = m.intcMASK
    /\ intcSTAT = m.intcSTAT
    /\ iMASK = m.iMASK
    /\ iSTAT = m.iSTAT
    /\ iCTRL = m.iCTRL
    /\ interruptPending = m.interruptPending
    /\ channels = m.channels
    /\ dicr = m.dicr
    /\ dicr2 = m.dicr2
    /\ dpcr = m.dpcr
    /\ dpcr2 = m.dpcr2
    /\ dmacen = m.dmacen
    /\ sif0 = m.sif0
    /\ iopRAM = m.iopRAM
    /\ eeDrq = m.eeDrq
    /\ eeStr = m.eeStr
    /\ dmae = m.dmae
    /\ enable = m.enable
    /\ eeMadr = m.eeMadr
    /\ ee = m.ee
    /\ hist = m.hist
    /\ spram = m.spram
    /\ ram = m.ram
    /\ acc = m.acc
    /\ iop = m.iop
    /\ iopSPRAM = m.iopSPRAM
    /\ spramStart = m.spramStart
    /\ spramEnd = m.spramEnd
    /\ cdvd = m.cdvd
    /\ loop = m.loop
    /\ io = m.io
    /\ eePcr = m.eePcr
    /\ sent = m.sent
    /\ gif = m.gif
    /\ sif = m.sif
    /\ fault = m.fault
    /\ now = m.now
    /\ hblanks = m.hblanks
    /\ fired = m.fired
    /\ bursts = m.bursts
    /\ pushLog = m.pushLog
    /\ pulled = m.pulled
    /\ chainStart = m.chainStart
    /\ snaps = m.snaps
    /\ lastOp = m.lastOp

(* ------------------- specification of the scheduler ------------------- *)

Init == Start(Boot)

\* scheduler::processEvents(e), with any e the horizon allows.
ProcessEvents ==
    \E e \in 1..MaxElapsed, ub \in BOOLEAN :
        /\ Alive(M)
        /\ now + e <= MaxLines * CYCLES_PER_SCANLINE
        /\ Commit(processEvents(Call(M, "processEvents"), e, ub))

\* scheduler::addEvent(id, 0, d, r) called by a device.
AddEvent ==
    \E id \in {idSIF1Start}, d \in 0..MaxDelay, r \in BOOLEAN :
        /\ Alive(M)
        /\ \A i \in DOMAIN events : events[i].id # id
        /\ Commit(addEvent(Call(M, IF r THEN "addEventR" ELSE "addEvent"),
                           id, 0, d, r))

Next == ProcessEvents \/ AddEvent

Spec == Init /\ [][Next]_vars

(* ------------- specification of the boot run: HBLANK only ------------- *)

\* The cycles of the boot scenario: 240 scanlines and one cycle.
BootCycles == SCANLINES_PER_VDRAW * CYCLES_PER_SCANLINE + 1

\* The main loop from boot with no device active: processEvents(e) only.
RunBoot ==
    \E e \in 1..MaxElapsed, ub \in BOOLEAN :
        /\ Alive(M)
        /\ now + e <= BootCycles
        /\ Commit(processEvents(Call(M, "processEvents"), e, ub))

NextBoot == RunBoot

SpecBoot == Init /\ [][NextBoot]_vars

(* ------------- specification of the GS and the two INTCs -------------- *)

\* The state n scanlines after m, driven one scanline per call.
RECURSIVE RunLines(_, _)
RunLines(m, n) ==
    IF n = 0 THEN m
    ELSE IF n = 1
    THEN processEvents(Call(m, "processEvents"), CYCLES_PER_SCANLINE, FALSE)
    ELSE LET half == RunLines(m, n \div 2)
         IN IF Alive(half) THEN RunLines(half, n - (n \div 2)) ELSE half

AfterLines(n) == RunLines(Boot, n)

\* The scanlines a run starts at: boot, two before VBLANK, two before the
\* end of the frame.
GSStartLines == {0, SCANLINES_PER_VDRAW - 2, SCANLINES_PER_FRAME - 2}

\* The scanlines at which a run goes on: MaxLines from each start.
GSWindow ==
    {(s + k) % SCANLINES_PER_FRAME : s \in GSStartLines, k \in 0..(MaxLines - 1)}

InitGS == \E n \in GSStartLines : Start(AfterLines(n))

RunGS ==
    \E e \in 1..MaxElapsed, ub \in BOOLEAN :
        /\ Alive(M)
        /\ lineCounter \in GSWindow
        /\ Commit(processEvents(Call(M, "processEvents"), e, ub))

\* The INTC register writes of the two CPUs, with data that set and clear
\* the VBLANK bits.
WriteMask ==
    \E data \in {{EE_VBLANKStart}} :
        Alive(M) /\ Commit(writeMask(Call(M, "writeMask"), data))

WriteStat ==
    \E data \in {{EE_VBLANKStart}, {EE_VBLANKStart, EE_VBLANKEnd}} :
        Alive(M) /\ Commit(writeStat(Call(M, "writeStat"), data))

WriteMaskIOP ==
    \E data \in {{}, {IOP_VBLANKStart}, {IOP_VBLANKStart, IOP_VBLANKEnd}} :
        Alive(M) /\ Commit(writeMaskIOP(Call(M, "writeMaskIOP"), data))

WriteStatIOP ==
    \E data \in {{}, (0..25) \ {IOP_VBLANKStart}} :
        Alive(M) /\ Commit(writeStatIOP(Call(M, "writeStatIOP"), data))

WriteCtrlIOP ==
    \E data \in {{}, {0}} :
        Alive(M) /\ Commit(writeCtrlIOP(Call(M, "writeCtrlIOP"), data))

ReadCtrlIOP == Alive(M) /\ Commit(readCtrlIOP(Call(M, "readCtrlIOP")))

NextGS ==
    \/ RunGS
    \/ WriteMask
    \/ WriteStat
    \/ WriteMaskIOP
    \/ WriteStatIOP
    \/ WriteCtrlIOP
    \/ ReadCtrlIOP

SpecGS == InitGS /\ [][NextGS]_vars

(* --------------- specification of the SIF0 chain transfer ------------- *)

\* Where the program puts its DMAtags and its data.
TagBase == 16 * 16
DataBase == 2 * TagBase

\* The chains the program prepares in IOP memory, one tag per element: a
\* single end tag of four words, and two tags of which the second has a
\* length that is not a multiple of 4.
Programs ==
    { <<[madr |-> DataBase, len |-> 4, flags |-> {31}]>>,
      <<[madr |-> DataBase, len |-> 4, flags |-> {}],
        [madr |-> DataBase + 64, len |-> 26, flags |-> {31}]>> }

\* The tag words of a chain as the program stores them from TagBase on; the
\* EE-tag words and the data keep the pattern of untouched memory.
Image(p) ==
    [a \in {TagBase + 16 * (k - 1) + o : k \in 1..Len(p), o \in {0, 4}} |->
        LET k == ((a - TagBase) \div 16) + 1
        IN IF (a - TagBase) % 16 = 0
           THEN BitsOf(p[k].madr) \cup p[k].flags
           ELSE BitsOf(p[k].len)]

InitSIF == \E p \in Programs : Start([Boot EXCEPT !.iopRAM = Image(p)])

\* The cycles a run of this specification covers: the delay of a burst of
\* four words and one scanline more.
SIFCycles == 16 * 4 + CYCLES_PER_SCANLINE

DMAEventPending == \E i \in DOMAIN events : events[i].id # idHBLANK

\* The main loop while a DMA event is pending: run to the next event.
RunSIF ==
    \E ub \in BOOLEAN :
        LET e == IF cyclesUntilNextEvent > cycleCount
                 THEN cyclesUntilNextEvent - cycleCount ELSE 1
        IN /\ Alive(M)
           /\ DMAEventPending
           /\ now + e <= SIFCycles
           /\ Commit(processEvents(Call(M, "processEvents"), e, ub))

\* The program writes DMAC registers until a FIFO's worth of words has been
\* pushed.
Programming ==
    /\ Alive(M)
    /\ Len(pushLog) <= SIF_FIFO_SIZE

\* dmac::write32 by the IOP program, on the registers a SIF0 transfer needs.
WriteTADR ==
    \E data \in {BitsOf(TagBase)} :
        /\ Programming
        /\ pushLog = <<>>
        /\ Commit(writeTADR(Call(M, "write32"), SIF0, data))

WriteCHCR ==
    \E data \in {{8, 24}, {8, 24, 28}} :
        Programming /\ Commit(writeCHCR(Call(M, "write32"), SIF0, data))

WriteDPCR2 ==
    \E data \in {{11}} :
        Programming /\ Commit(writeDPCR2(Call(M, "write32"), data))

WriteDMACEN ==
    \E data \in {{0}} :
        Programming /\ Commit(writeDMACEN(Call(M, "write32"), data))

WriteDICR2 ==
    \E data \in {{18}} :
        Programming /\ Commit(writeDICR2(Call(M, "write32"), data))

\* The EE side of SIF0: after the SIF0 start event it pulls the words out of
\* the FIFO, and when the FIFO is empty it takes back its own request and
\* raises the DRQ of the IOP channel again.
RECURSIVE readWords(_)
readWords(m) ==
    IF m.sif0 = <<>> THEN m
    ELSE CHOOSE r \in {readWords(w) : w \in {readSIF0(m)}} : TRUE

EEPull ==
    /\ Alive(M)
    /\ EE_SIF0 \in eeDrq
    /\ sif0 # <<>>
    /\ Commit(readWords(Call(M, "readSIF0")))

EEDone ==
    /\ Alive(M)
    /\ EE_SIF0 \in eeDrq
    /\ sif0 = <<>>
    /\ Commit(setDRQ([Call(M, "setDRQ") EXCEPT !.eeDrq = @ \ {EE_SIF0}],
                      SIF0, TRUE))

NextSIF ==
    \/ RunSIF
    \/ WriteTADR
    \/ WriteCHCR
    \/ WriteDPCR2
    \/ WriteDMACEN
    \/ WriteDICR2
    \/ EEPull
    \/ EEDone

SpecSIF == InitSIF /\ [][NextSIF]_vars

(* ------------ specification of a SIF0 chain run to its end ------------ *)

\* The chains of this specification: one end tag whose 36 words need two
\* bursts, and a tag of 32 words followed by an end tag of four words.
ChainPrograms ==
    { <<[madr |-> DataBase, len |-> 36, flags |-> {31}]>>,
      <<[madr |-> DataBase, len |-> 32, flags |-> {}],
        [madr |-> DataBase + 128, len |-> 4, flags |-> {31}]>> }

InitChain == \E p \in ChainPrograms : Start([Boot EXCEPT !.iopRAM = Image(p)])

\* The cycles a run covers: the delay of two full FIFOs of words.
MaxChainCycles == 16 * 2 * SIF_FIFO_SIZE

\* The main loop while a DMA event is pending: run to the next event.
RunChain ==
    \E ub \in BOOLEAN :
        LET e == IF cyclesUntilNextEvent > cycleCount
                 THEN cyclesUntilNextEvent - cycleCount ELSE 1
        IN /\ Alive(M)
           /\ DMAEventPending
           /\ now + e <= MaxChainCycles
           /\ Commit(processEvents(Call(M, "processEvents"), e, ub))

\* The program points TADR at its chain and then sets CHCR (str and tte, with
\* or without fst), once, before any word has been moved.
ChainTADR ==
    /\ Alive(M)
    /\ pushLog = <<>>
    /\ channels[SIF0].tadr # TagBase
    /\ Commit(writeTADR(Call(M, "write32"), SIF0, BitsOf(TagBase)))

ChainCHCR ==
    \E data \in {{8, 24}, {8, 24, 28}} :
        /\ Alive(M)
        /\ pushLog = <<>>
        /\ channels[SIF0].tadr = TagBase
        /\ ~channels[SIF0].str
        /\ Commit(writeCHCR(Call(M, "write32"), SIF0, data))

\* DPCR2 and DMACEN are written to enable the channel, and written again
\* with the same data until the EE side has begun to pull words; each write
\* polls all channels.
ChainDPCR2 ==
    /\ Alive(M)
    /\ pulled = <<>>
    /\ Commit(writeDPCR2(Call(M, "write32"), {11}))

ChainDMACEN ==
    /\ Alive(M)
    /\ pulled = <<>>
    /\ Commit(writeDMACEN(Call(M, "write32"), {0}))

NextChain ==
    \/ RunChain
    \/ ChainTADR
    \/ ChainCHCR
    \/ ChainDPCR2
    \/ ChainDMACEN
    \/ EEPull
    \/ EEDone

\* The main loop goes on as long as an event is pending, and the EE side
\* goes on pulling the FIFO empty and raising the DRQ of SIF0 again.
SpecChain ==
    /\ InitChain
    /\ [][NextChain]_vars
    /\ WF_vars(RunChain)
    /\ WF_vars(EEPull)
    /\ WF_vars(EEDone)

(* ------------- specification of the DMA memory addresses -------------- *)

\* A chain of one end tag whose address field has its two low bits set.
InitMADR ==
    Start([Boot EXCEPT !.iopRAM =
              Image(<<[madr |-> DataBase + 3, len |-> 4, flags |-> {31}]>>)])

\* dmac::write32 of the IOP DMAC, D9_MADR, with unaligned data.
WriteMADR ==
    /\ Programming
    /\ \E data \in {BitsOf(DataBase + 3), BitsOf(DataBase + 64 + 2) \cup {24}} :
          Commit(writeMADR(Call(M, "writeMADR"), SIF0, data))

\* ee::dmac::write of the EE DMAC, D5_MADR, with unaligned data.
WriteEEMADR ==
    /\ Programming
    /\ \E data \in {BitsOf(DataBase + 15), {0, 3, 4, 31}} :
          Commit(eeWriteMADR(Call(M, "eeWriteMADR"), EE_SIF0, data))

NextMADR ==
    \/ WriteMADR
    \/ WriteEEMADR
    \/ WriteTADR
    \/ WriteCHCR
    \/ WriteDPCR2
    \/ WriteDMACEN
    \/ RunSIF

SpecMADR == InitMADR /\ [][NextMADR]_vars

(* ------------------ specification of the EE memory ------------------- *)

\* the accesses made in one run
MaxAccesses == 2

\* 0x70000000 and 0x70004000 (the same scratchpad quadword), 0x7FFFC009 (a
\* scratchpad byte at an odd offset) and 0x80004000 (main RAM through KSEG0).
EEAddresses ==
    { {28, 29, 30}, {14, 28, 29, 30}, {0, 3} \cup (14..30), {14, 31} }

AccessWidths == {1, 2, 4, 8, 16}

\* the two quadwords written (narrower stores take the low bytes)
EEData == { {0, 7, 8, 15, 31, 33, 63, 64, 100, 127}, {1, 9, 17, 62, 126} }

InitMem == Start(Boot)

\* write8 .. write128
EEWrite ==
    /\ Alive(M)
    /\ Len(acc) < MaxAccesses
    /\ \E n \in AccessWidths, addr \in EEAddresses, data \in EEData :
           Commit(eeWrite(Call(M, "eeWrite"), addr, n, data))

\* read8 .. read128
EERead ==
    /\ Alive(M)
    /\ Len(acc) < MaxAccesses
    /\ \E n \in AccessWidths, addr \in EEAddresses :
           Commit(eeReadDone(Call(M, "eeRead"), addr, n))

NextMem == EEWrite \/ EERead

SpecMem == InitMem /\ [][NextMem]_vars

(* ------------------ specification of the IOP memory ------------------ *)

\* 0x1F800000 and 0x1F800400: the window the BIOS gives the scratchpad
WindowStart == {23, 24, 25, 26, 27, 28}
WindowEnd == {10, 23, 24, 25, 26, 27, 28}

\* an odd address in RAM, and the first bytes of the window
IOPAddresses == {65537, Val(WindowStart), Val(WindowStart) + 2}

IOPWidths == {1, 2, 4}

IOPData == { {0, 7, 8, 15, 16, 23, 25, 31}, {1, 6, 9, 14, 17, 22, 30} }

\* writeIOP32 to SPRAM Start, SPRAM End and Cache Control
WriteWindow ==
    /\ Alive(M)
    /\ \E w \in {<<SPRAMStartReg, WindowStart>>, <<SPRAMEndReg, WindowEnd>>,
                 <<CacheControl, {}>>} :
           Commit(writeIOP32(Call(M, "writeIOP32"), w[1], w[2], "crash"))

\* writeIOP8 / writeIOP16 / writeIOP32 to memory
WriteIOP ==
    /\ Alive(M)
    /\ Len(acc) < MaxAccesses
    /\ \E n \in IOPWidths, addr \in IOPAddresses, data \in IOPData,
          ub \in {"crash", "stray"} :
           Commit(writeIOP([Call(M, "writeIOP") EXCEPT
                      !.acc = Append(@, [kind |-> "write", width |-> n, addr |-> addr,
                                         data |-> data, ram |-> iopRAM, spr |-> iopSPRAM,
                                         start |-> spramStart, end |-> spramEnd])],
                  addr, n, data, ub))

\* readIOP8 / readIOP16 / readIOP32
ReadIOP ==
    /\ Alive(M)
    /\ Len(acc) < MaxAccesses
    /\ \E n \in IOPWidths, addr \in IOPAddresses :
           Commit(IF readIOPFault(M, addr, n) # "none"
                  THEN Abort(Call(M, "readIOP"), readIOPFault(M, addr, n))
                  ELSE [Call(M, "readIOP") EXCEPT
                          !.acc = Append(@, [kind |-> "read", width |-> n, addr |-> addr,
                                             data |-> readIOP(M, addr, n), ram |-> iopRAM,
                                             spr |-> iopSPRAM, start |-> spramStart,
                                             end |-> spramEnd])])

NextIOPMem == WriteWindow \/ WriteIOP \/ ReadIOP

SpecIOPMem == InitMem /\ [][NextIOPMem]_vars

(* --------------------- specification of the drive --------------------- *)

\* the sectors of one command and the commands of one run
MaxSectors == 2
MaxCommands == 2

\* The parameter bytes of ReadCD the host may write at position i:
\* POS = 100, NUM in 1..MaxSectors, size 0 (2048 bytes).
ParamBytes(i) ==
    CASE i = 1 -> {100}
      [] i = 5 -> 1..MaxSectors
      [] OTHER -> {0}

InitCDVD == Start(Boot)

WriteNCMDPARAM ==
    /\ Alive(M)
    /\ cdvd.ncmdstat = {READY}
    /\ cdvd.cmds < MaxCommands
    /\ Len(cdvd.ncmdParam) < 11
    /\ \E data \in ParamBytes(Len(cdvd.ncmdParam) + 1) :
           Commit(cdvdWriteNCMDPARAM(Call(M, "cdvdWrite"), data))

WriteNCMD ==
    /\ Alive(M)
    /\ cdvd.ncmdstat = {READY}
    /\ Len(cdvd.ncmdParam) = 11
    /\ Commit(cdvdWriteNCMD(Call(M, "cdvdWrite"), ReadCD))

FinishSeek ==
    /\ Alive(M)
    /\ cdvd.finishSeek > 0
    /\ Commit(finishSeekEvent([Call(M, "finishSeekEvent") EXCEPT !.cdvd.finishSeek = @ - 1]))

RequestDMA ==
    /\ Alive(M)
    /\ cdvd.requestDMA > 0
    /\ Commit(requestDMAEvent([Call(M, "requestDMAEvent") EXCEPT !.cdvd.requestDMA = @ - 1]))

\* The DMA reads the data register once the drive has requested it, while
\* the command is in progress and its seek has finished.
DMARead ==
    /\ Alive(M)
    /\ channels[CDVD].drq
    /\ cdvd.ncmdstat = {BUSY}
    /\ cdvd.finishSeek = 0
    /\ Commit(readDMAC(Call(M, "readDMAC")))

NextCDVD == WriteNCMDPARAM \/ WriteNCMD \/ FinishSeek \/ RequestDMA \/ DMARead

SpecCDVD == InitCDVD /\ [][NextCDVD]_vars

(* ---------------------- specification of the seeks ------------------- *)

\* the commands of one run
MaxSeekCommands == 2

\* POS of a ReadCD, as its two low parameter bytes: sectors 0, 7, 8, 4370
\* and 4371.
SeekPositions == {<<0, 0>>, <<7, 0>>, <<8, 0>>, <<18, 17>>, <<19, 17>>}

RECURSIVE writeParams(_, _)
writeParams(m, p) ==
    IF p = <<>> THEN m ELSE writeParams(cdvdWriteNCMDPARAM(m, Head(p)), Tail(p))

\* The host writes the eleven parameter bytes and then the command.
SeekCommand ==
    /\ Alive(M)
    /\ cdvd.ncmdstat = {READY}
    /\ cdvd.cmds < MaxSeekCommands
    /\ \E pos \in SeekPositions, num \in 1..MaxSectors :
           Commit(cdvdWriteNCMD(
               writeParams(Call(M, "ncmdReadCD"),
                           <<pos[1], pos[2], 0, 0, num, 0, 0, 0, 0, 0, 0>>),
               ReadCD))

\* The DMA reads one sector out of the data register, word by word.
RECURSIVE readWordsOf(_, _)
readWordsOf(m, k) ==
    IF k = 0 THEN m
    ELSE IF k = 1 THEN readDMAC(m)
    ELSE LET half == readWordsOf(m, k \div 2)
         IN IF Alive(half) THEN readWordsOf(half, k - k \div 2) ELSE half

SeekReadSector ==
    /\ Alive(M)
    /\ channels[CDVD].drq
    /\ cdvd.ncmdstat = {BUSY}
    /\ cdvd.finishSeek = 0
    /\ cdvd.requestDMA = 0
    /\ Commit(readWordsOf(Call(M, "readDMAC"), cdvd.size \div 4))

NextSeek == SeekCommand \/ FinishSeek \/ RequestDMA \/ SeekReadSector

SpecSeek == InitCDVD /\ [][NextSeek]_vars

(* ------------------- specification of the S commands ---------------- *)

\* the register accesses of one run
MaxSCMDOps == 4

SCMDOps == Len(cdvd.popped) + Len(cdvd.scmdParam) + cdvd.cmds

\* what the build makes of an empty queue, and the byte a stray read gives
Underruns == {"crash", "stray"}
StrayBytes == {0, 255}

WriteSCMDPARAM ==
    /\ Alive(M)
    /\ SCMDOps < MaxSCMDOps
    /\ cdvd.scmdParam = <<>>
    /\ Commit(cdvdWriteSCMDPARAM(Call(M, "writeSCMDPARAM"), MechaconVersion))

WriteSCMD ==
    /\ Alive(M)
    /\ SCMDOps < MaxSCMDOps
    /\ \E data \in {Subcommand, UpdateStickyFlags, ReadRTC},
          ub \in Underruns, stray \in StrayBytes :
           Commit(cdvdWriteSCMD([Call(M, "writeSCMD") EXCEPT !.cdvd.cmds = @ + 1],
                                data, ub, stray))

ReadSCMDDATA ==
    /\ Alive(M)
    /\ SCMDOps < MaxSCMDOps
    /\ \E ub \in Underruns, stray \in StrayBytes :
           Commit([cdvdReadSCMDDATA(Call(M, "readSCMDDATA"), ub, stray)
                     EXCEPT !.io = [empty |-> cdvd.scmdData = <<>>,
                                    params |-> cdvd.scmdParam]])

NextSCMD == WriteSCMDPARAM \/ WriteSCMD \/ ReadSCMDDATA

SpecSCMD == InitCDVD /\ [][NextSCMD]_vars

(* -------------------- specification of the EE timers ---------------- *)

\* the HBLANKs of one run, and the count the timers have reached before it
MaxTicks == 3
TimerStart == 65534

\* T_MODE data: HBLANK clock counting; the same with the overflow
\* interrupt, with compare and zero return, with OVFF written as 1; the bus
\* clock counting; stopped.
TimerModes == {{0, 1, 7}, {0, 1, 7, 9}, {0, 1, 6, 7, 8}, {0, 1, 7, 9, 11}, {7}, {}}

\* The timers have counted HBLANKs for a while and were stopped.
InitTimer ==
    Start([Boot EXCEPT !.timers =
              [i \in 0..3 |-> [@[i] EXCEPT !.count = TimerStart]]])

TimerWriteMode ==
    \E chn \in {0, 1}, data \in TimerModes :
        Alive(M) /\ Commit([timerWriteMODE(Call(M, "timerWrite32"), chn, data)
                              EXCEPT !.io = [timers |-> timers]])

TimerHBLANK ==
    /\ Alive(M)
    /\ hblanks < MaxTicks
    /\ Commit([stepHBLANK(Call(M, "stepHBLANK"))
                 EXCEPT !.io = [timers |-> timers], !.hblanks = @ + 1])

NextTimer == TimerWriteMode \/ TimerHBLANK

SpecTimer == InitTimer /\ [][NextTimer]_vars

(* ------------------ specification of the SIF mailbox ---------------- *)

\* The SIF registers as the EE and the IOP address them.
SIFBaseEE == 268497408
SIFBaseIOP == 486539264

\* Flag words: 0x1, 0x3 and 0x80000000.
SIFData == {{0}, {0, 1}, {31}}

SifLog(m, reg, data) ==
    [reg |-> reg, data |-> data, msflg |-> m.sif.msflg, smflg |-> m.sif.smflg]

InitMailbox == Start(Boot)

SifWriteEE ==
    \E reg \in {MSFLG, SMFLG, MSCOM}, data \in SIFData :
        Alive(M) /\ (reg = MSCOM => data = {0})
        /\ Commit([sifWrite(Call(M, "sifWrite"), SIFBaseEE + reg, data)
                              EXCEPT !.io = SifLog(M, reg, data)])

SifWriteIOP ==
    \E reg \in {MSFLG, SMFLG, SMCOM}, data \in SIFData :
        Alive(M) /\ (reg = SMCOM => data = {0})
        /\ Commit([sifWriteIOP(Call(M, "sifWriteIOP"), SIFBaseIOP + reg, data)
                              EXCEPT !.io = SifLog(M, reg, data)])

NextMailbox == SifWriteEE \/ SifWriteIOP

SpecMailbox == InitMailbox /\ [][NextMailbox]_vars

(* ----------------------- specification of the GIF ------------------- *)

\* the GIFtags of one run
MaxTags == 6

\* A PACKED GIFtag with NLOOP n, the encoded NREGS r, PRIM-present pre and
\* the register list regs (a 64-bit value as a set of bits).
GIFtagOf(n, pre, r, regs) ==
    BitsOf(n) \cup (IF pre THEN {46} ELSE {}) \cup {b + 60 : b \in BitsOf(r)}
    \cup {b + 64 : b \in regs}

\* Register lists: 0x51 (registers 1, 5) and one with a different register
\* in each of the sixteen nibbles, 0xFEDCBA9876543210.
RegsA == {0, 4, 6}
RegsB == UNION {{4 * i + b : b \in BitsOf(i)} : i \in 0..15}

\* The quadwords PATH3 delivers; each may arrive as a tag or as data.
Quadwords ==
    { GIFtagOf(1, FALSE, 1, RegsA),
      GIFtagOf(2, FALSE, 2, RegsA),
      GIFtagOf(1, FALSE, 0, RegsB),
      GIFtagOf(1, TRUE, 1, RegsA) }

InitGIF == Start(Boot)

DoCmd ==
    /\ Alive(M)
    /\ (gif.hasTag \/ gif.tags < MaxTags)
    /\ \E data \in Quadwords : Commit(doCmd(Call(M, "doCmd"), data))

NextGIF == DoCmd

SpecGIF == InitGIF /\ [][NextGIF]_vars

(* ------------------- specification of the processors ----------------- *)

\* the instructions executed in one run
MaxSteps == 3

\* Instruction words: opcode, rs, rt and a 16-bit immediate; opcode and a
\* 26-bit target; SPECIAL / MMI with rs, rt, rd, shamt and function.
IType(op, rs, rt, imm) ==
    Shl(BitsOf(op), 26, 32) \cup Shl(BitsOf(rs), 21, 32) \cup Shl(BitsOf(rt), 16, 32)
    \cup BitsOf(imm)

JType(op, target) == Shl(BitsOf(op), 26, 32) \cup BitsOf(target)

RType(op, rs, rt, rd, shamt, funct) ==
    Shl(BitsOf(op), 26, 32) \cup Shl(BitsOf(rs), 21, 32) \cup Shl(BitsOf(rt), 16, 32)
    \cup Shl(BitsOf(rd), 11, 32) \cup Shl(BitsOf(shamt), 6, 32) \cup BitsOf(funct)

\* The words the BIOS may hold at the fetched address.
CommonProgram ==
    { IType(LUI, 0, 8, 49088),        \* LUI t0, 0xBFC0
      IType(LUI, 0, 0, 4660),         \* LUI r0, 0x1234
      IType(ORI, 9, 9, 4660),         \* ORI t1, t1, 0x1234
      IType(BEQ, 0, 0, 2),            \* BEQ r0, r0, +2
      IType(BNE, 0, 0, 65535),        \* BNE r0, r0, -1: not taken
      IType(BNE, 8, 0, 65533),        \* BNE t0, r0, -3
      JType(JAL, 1048576),            \* JAL 0x400000
      RType(SPECIAL, 8, 0, 0, 0, JALR),   \* JALR r0, t0
      RType(SPECIAL, 9, 0, 0, 0, JR),     \* JR t1
      IType(18, 0, 0, 0) }            \* COP2: no such case in decodeInstr

EEProgram ==
    CommonProgram \cup
    { IType(LUI, 0, 1, 28672),        \* LUI at, 0x7000
      IType(LQ, 1, 2, 16384),         \* LQ v0, 0x4000(at)
      IType(LW, 1, 2, 0),             \* LW v0, 0(at)
      IType(LWU, 1, 2, 0),            \* LWU v0, 0(at)
      IType(ADDIU, 0, 2, 65535),      \* ADDIU v0, r0, -1
      IType(BEQL, 8, 0, 4),           \* BEQL t0, r0, +4
      IType(BNEL, 8, 0, 4),           \* BNEL t0, r0, +4
      RType(MMI, 2, 2, 0, PAND, MMI3) }   \* PAND r0, v0, v0

\* The scratchpad holds a quadword, as earlier stores or a DMA transfer
\* leave it.
InitCPU ==
    Start(iopInit(eeInit([Boot EXCEPT
        !.spram = WriteBytes(<< >>, 0, 16, {0, 9, 31, 32, 63, 64, 70, 95, 96, 127})])))

\* A run follows one of the two processors: they share no state here.
StepEE ==
    /\ Alive(M)
    /\ Len(hist) < MaxSteps
    /\ \A i \in DOMAIN hist : hist[i].cpu = "EE"
    /\ \E instr \in EEProgram : Commit(eeStep(Call(M, "eeStep"), instr))

StepIOP ==
    /\ Alive(M)
    /\ Len(hist) < MaxSteps
    /\ \A i \in DOMAIN hist : hist[i].cpu = "IOP"
    /\ \E instr \in CommonProgram, ub \in {"crash", "stray"} :
           Commit(iopStep(Call(M, "iopStep"), instr, ub))

NextCPU == StepEE \/ StepIOP

SpecCPU == InitCPU /\ [][NextCPU]_vars

(* ------------- specification of the IOP's cache isolation ------------ *)

\* the instructions executed in one run
MaxIOPSteps == 4

\* LUI a1, 0x0001 makes a1 = 0x00010000: an address in RAM and a Status
\* value with the cache-isolated bit.
IsolationProgram ==
    { IType(LUI, 0, 5, 1),                \* LUI a1, 0x0001
      RType(COP0, MT, 5, Status, 0, 0),   \* MTC0 a1, Status
      RType(COP0, MT, 0, Status, 0, 0),   \* MTC0 r0, Status
      IType(SW, 5, 5, 0),                 \* SW a1, 0(a1)
      IType(SH, 5, 5, 2),                 \* SH a1, 2(a1)
      IType(SB, 5, 5, 3),                 \* SB a1, 3(a1)
      IType(LB, 5, 2, 3) }                \* LB v0, 3(a1)

StepIsolated ==
    /\ Alive(M)
    /\ Len(hist) < MaxIOPSteps
    /\ \E instr \in IsolationProgram, ub \in {"crash", "stray"} :
           Commit(iopStep(Call(M, "iopStep"), instr, ub))

NextISC == StepIsolated

SpecISC == InitCPU /\ [][NextISC]_vars

(* ----------------- specification of the IOP's exceptions ------------- *)

MaxExcSteps == 4

\* A program that sets Status.BEV, branches and makes a system call.
ExceptionProgram ==
    { IType(LUI, 0, 8, 64),                     \* LUI t0, 0x0040
      RType(COP0, MT, 8, Status, 0, 0),         \* MTC0 t0, Status
      IType(BEQ, 0, 0, 2),                      \* BEQ r0, r0, +2
      RType(SPECIAL, 0, 0, 0, 0, SYSCALL),      \* SYSCALL
      IType(ORI, 9, 9, 4660) }                  \* ORI t1, t1, 0x1234

StepException ==
    /\ Alive(M)
    /\ Len(hist) < MaxExcSteps
    /\ \E instr \in ExceptionProgram :
           Commit(iopStep(Call(M, "iopStep"), instr, "crash"))

NextEXC == StepException

SpecEXC == InitCPU /\ [][NextEXC]_vars

(* ---------- specification of the interrupt controllers' registers ---- *)

\* The registers an access finds, the data it writes and the result it gets.
IOLog(m, data, ret) ==
    [data |-> data, ret |-> ret, iSTAT |-> m.iSTAT, iMASK |-> m.iMASK,
     iCTRL |-> m.iCTRL, intcSTAT |-> m.intcSTAT, intcMASK |-> m.intcMASK]

\* The sources raised and the data written: the VBLANK and DMA bits, and a
\* bit above each register's width (u32 data for the IOP, u16 for the EE).
IOPSources == {IOP_VBLANKStart, IOP_DMA}
EESources == {EE_VBLANKStart, EE_VBLANKEnd}
IOPIntcData == {{}, {3}, {0, 3}, {3, 26}}
EEIntcData == {{}, {2}, {2, 3}, {2, 15}}

InitINTC == Start(Boot)

IntcWriteStatIOP ==
    \E data \in IOPIntcData :
        Alive(M) /\ Commit([writeStatIOP(Call(M, "writeStatIOP"), data)
                              EXCEPT !.io = IOLog(M, data, FALSE)])

IntcWriteMaskIOP ==
    \E data \in IOPIntcData :
        Alive(M) /\ Commit([writeMaskIOP(Call(M, "writeMaskIOP"), data)
                              EXCEPT !.io = IOLog(M, data, FALSE)])

IntcWriteCtrlIOP ==
    \E data \in {{}, {0}, {1}} :
        Alive(M) /\ Commit([writeCtrlIOP(Call(M, "writeCtrlIOP"), data)
                              EXCEPT !.io = IOLog(M, data, FALSE)])

IntcReadCtrlIOP ==
    Alive(M) /\ Commit([readCtrlIOP(Call(M, "readCtrlIOP"))
                          EXCEPT !.io = IOLog(M, {}, readCtrlIOPValue(M))])

IntcSendIOP ==
    \E i \in IOPSources :
        Alive(M) /\ Commit([sendInterruptIOP(Call(M, "sendInterruptIOP"), i)
                              EXCEPT !.io = IOLog(M, {i}, FALSE)])

IntcWriteStat ==
    \E data \in EEIntcData :
        Alive(M) /\ Commit([writeStat(Call(M, "writeStat"), data)
                              EXCEPT !.io = IOLog(M, data, FALSE)])

IntcWriteMask ==
    \E data \in EEIntcData :
        Alive(M) /\ Commit([writeMask(Call(M, "writeMask"), data)
                              EXCEPT !.io = IOLog(M, data, FALSE)])

IntcSend ==
    \E i \in EESources :
        Alive(M) /\ Commit([sendInterrupt(Call(M, "sendInterrupt"), i)
                              EXCEPT !.io = IOLog(M, {i}, FALSE)])

NextINTC ==
    \/ IntcWriteStatIOP
    \/ IntcWriteMaskIOP
    \/ IntcWriteCtrlIOP
    \/ IntcReadCtrlIOP
    \/ IntcSendIOP
    \/ IntcWriteStat
    \/ IntcWriteMask
    \/ IntcSend

SpecINTC == InitINTC /\ [][NextINTC]_vars

(* ------------ specification of the EE DMAC's channel gating ----------- *)

\* The register writes of the EE program and the DRQ changes of the devices,
\* on the two SIF channels.
EEChannels == {EE_SIF0, EE_SIF1}

InitEEDMAC == Start(Boot)

EEWriteCHCR ==
    \E chn \in EEChannels, data \in {{}, {8}} :
        Alive(M) /\ Commit([eeWriteCHCR(Call(M, "eeWriteCHCR"), chn, data)
                              EXCEPT !.io = [chn |-> chn, data |-> data, enable |-> enable]])

EESetDRQ ==
    \E chn \in EEChannels, drq \in BOOLEAN :
        Alive(M) /\ Commit([eeSetDRQ(Call(M, "eeSetDRQ"), chn, drq)
                              EXCEPT !.io = [chn |-> chn, data |-> {}, enable |-> enable]])

EEWriteCTRL ==
    \E data \in {{}, {0}} :
        Alive(M) /\ Commit([eeWriteCTRL(Call(M, "eeWriteCTRL"), data)
                              EXCEPT !.io = [chn |-> -1, data |-> data, enable |-> enable]])

EEWritePCR ==
    \E data \in {{}, {31}, {16 + EE_SIF0, 31}, {16 + EE_SIF0, 16 + EE_SIF1}} :
        Alive(M) /\ Commit([eeWritePCR(Call(M, "eeWritePCR"), data)
                              EXCEPT !.io = [chn |-> -1, data |-> data, enable |-> enable]])

EEWriteEnable ==
    \E data \in {{}, {0, 9, 12}, {16}, {0, 9, 12, 16}} :
        Alive(M) /\ Commit([eeWriteEnable(Call(M, "eeWriteEnable"), data)
                              EXCEPT !.io = [chn |-> -1, data |-> data, enable |-> enable]])

NextEEDMAC ==
    \/ EEWriteCHCR
    \/ EESetDRQ
    \/ EEWriteCTRL
    \/ EEWritePCR
    \/ EEWriteEnable

SpecEEDMAC == InitEEDMAC /\ [][NextEEDMAC]_vars

(* --------- specification of the IOP DMAC's interrupt registers -------- *)

\* What an operation finds: mif and the two groups of pending bits.
DicrLog(m, data) ==
    [data |-> data, mif |-> m.dicr.mif, ip |-> m.dicr.ip, ip2 |-> m.dicr2.ip]

\* DICR data: bef, mie, and mie with a pending bit written as 1.
DICRData == {{}, {15}, {23}, {23, 24}}

\* DICR2 data: the masks of SIF0 and SIF1 (channels 9 and 10, bits 2 and 3
\* of the group) and the pending bit of SIF0 written as 1.
DICR2Data == {{}, {18}, {18, 19}, {18, 19, 26}, {26}}

InitDICR == Start(Boot)

DicrWrite ==
    \E data \in DICRData :
        Alive(M) /\ Commit([writeDICR(Call(M, "writeDICR"), data)
                              EXCEPT !.io = DicrLog(M, data)])

Dicr2Write ==
    \E data \in DICR2Data :
        Alive(M) /\ Commit([writeDICR2(Call(M, "writeDICR2"), data)
                              EXCEPT !.io = DicrLog(M, data)])

\* The scheduler dispatches the transfer-end event that a burst of SIF0 or
\* SIF1 has queued.
DicrTransferEnd ==
    \E chn \in {SIF0, SIF1} :
        Alive(M) /\ Commit([registeredFuncs(Call(M, "transferEndEvent"),
                                            idTransferEnd, chn, 0)
                              EXCEPT !.io = DicrLog(M, {chn})])

\* The IOP program acknowledges the DMA interrupt in I_STAT.
DicrAcknowledge ==
    Alive(M) /\ IOP_DMA \in iSTAT
    /\ Commit([writeStatIOP(Call(M, "writeStatIOP"), (0..31) \ {IOP_DMA})
                 EXCEPT !.io = DicrLog(M, {})])

NextDICR ==
    \/ DicrWrite
    \/ Dicr2Write
    \/ DicrTransferEnd
    \/ DicrAcknowledge

SpecDICR == InitDICR /\ [][NextDICR]_vars

(* ------------------------------ main loop ----------------------------- *)

\* scheduler::getRunCycles: the cycles until the next event.
getRunCycles(m) == m.cyclesUntilNextEvent

\* scheduler::flush: expired events are drained, with no cycles added.
flush(m, ub) == IF Alive(m) THEN processEvents(m, 0, ub) ELSE m

\* ee::cpu::step(c) with the word instr at every fetched address.
RECURSIVE eeRun(_, _, _)
eeRun(m, c, instr) ==
    IF c = 0 \/ ~Alive(m) THEN m
    ELSE eeRun([eeStep(m, instr) EXCEPT !.loop.ee = @ + 1], c - 1, instr)

\* iop::step(c) with the word instr at every fetched address.
RECURSIVE iopRun(_, _, _)
iopRun(m, c, instr) ==
    IF c = 0 \/ ~Alive(m) THEN m
    ELSE iopRun([iopStep(m, instr, "crash") EXCEPT !.loop.iop = @ + 1], c - 1, instr)

\* One iteration of the loop of ps2::run.  dev is what the devices do on
\* behalf of the instructions of the IOP: nothing, or one addEvent.
run(m, eeInstr, iopInstr, dev, ub) ==
    LET runCycles == getRunCycles(m)
        m1 == processEvents(m, runCycles, ub)
        m2 == eeRun(m1, runCycles, eeInstr)
        m3 == iopRun(m2, runCycles \div 8, iopInstr)
        m4 == IF dev.add /\ Alive(m3)
              THEN addEvent(m3, dev.id, 0, dev.delay, dev.reschedule) ELSE m3
    IN flush(m4, ub)

(* ------------------- specification of the main loop ------------------- *)

\* Horizon of the main loop, in EE cycles.
MaxRunTime == 40

\* gs.cpp: CYCLES_PER_SCANLINE = 2 * 9370, the delay of the first HBLANK; it
\* lies behind the horizon.
RealScanline == 18740

\* The delays of the events the devices add.
RunDelays == {0, 8, 11}

\* The word both processors find at every fetched address: LUI at, 0.
IdleWord == IType(LUI, 0, 1, 0)

\* After init(): HBLANK is queued by gs::init(), and the IOP's boot code has
\* let a device queue a first event.
InitRun ==
    Start(addEvent(addEvent(iopInit(eeInit(Zero)), idHBLANK, 0, RealScanline, TRUE),
                   idSIF1Start, 0, 8, TRUE))

Devices ==
    {[add |-> FALSE, id |-> idSIF1Start, delay |-> 0, reschedule |-> FALSE]}
    \cup [add : {TRUE}, id : {idSIF0Start, idSIF1Start}, delay : RunDelays,
          reschedule : BOOLEAN]

Run ==
    /\ Alive(M)
    /\ now + getRunCycles(M) <= MaxRunTime
    /\ \E dev \in Devices, ub \in BOOLEAN :
           /\ dev.add => \A i \in DOMAIN events :
                             \/ events[i].id # dev.id
                             \/ events[i].cyclesUntilEvent <= getRunCycles(M)
           /\ Commit(run(Call(M, "run"), IdleWord, IdleWord, dev, ub))

NextRun == Run

SpecRun == InitRun /\ [][NextRun]_vars

(* ------------------------------- claims ------------------------------- *)

HBLANKsPending == {i \in DOMAIN events : events[i].id = idHBLANK}

\* C1: after every addEvent(id, param, cycles, true) cyclesUntilNextEvent is
\* the minimum cyclesUntilEvent over all queued events, the new one included.
C1_Theorem ==
    lastOp = "addEventR" => cyclesUntilNextEvent = MinCycles(events)

\* C1 witness: an addEvent with reschedule put a new minimum at the front of
\* a queue that already held HBLANK.
C1_Witness ==
    /\ lastOp = "addEventR"
    /\ Len(events) = 2
    /\ events[1].cyclesUntilEvent < events[2].cyclesUntilEvent
    /\ cyclesUntilNextEvent = events[1].cyclesUntilEvent

\* C2: for every k >= 1 the k-th HBLANK callback is dispatched no earlier
\* than k * CYCLES_PER_SCANLINE elapsed cycles in total (the overshoot of a
\* drain is not counted twice).
C2_Claim ==
    \A j \in DOMAIN fired :
        fired[j].id = idHBLANK => now >= fired[j].nth * CYCLES_PER_SCANLINE

\* C3: an event added with delay d is never dispatched before d cycles have
\* elapsed since its insertion.
C3_Claim == \A j \in DOMAIN fired : fired[j].wait = 0

\* C4: the queue is never empty, exactly one HBLANK event is pending at all
\* times, and the delay of a re-added HBLANK is never negative (the assert
\* of addEvent never fails).
C4_Claim ==
    /\ events # <<>>
    /\ Cardinality(HBLANKsPending) = 1
    /\ fault # "assert"

\* C5: each HBLANK callback sets CSR bit 2 and adds one to the line counter;
\* at 240 it sets CSR bit 3, toggles CSR bit 13 and raises VBLANKStart on
\* both INTCs; at 262 it raises VBLANKEnd on both and wraps to 0; the line
\* counter stays in 0..261; and after 240 * CYCLES_PER_SCANLINE + 1 cycles
\* from boot the line counter is 240 with the three VBLANK indications set.
C5_Claim ==
    /\ lineCounter \in 0..(SCANLINES_PER_FRAME - 1)
    /\ \A j \in DOMAIN snaps :
          LET s == snaps[j] IN
          /\ 2 \in s.csr
          /\ s.lineOut = (s.lineIn + 1) % SCANLINES_PER_FRAME
          /\ s.lineIn + 1 = SCANLINES_PER_VDRAW =>
                /\ 3 \in s.csr
                /\ (13 \in s.csr) # (13 \in s.csrIn)
                /\ EE_VBLANKStart \in s.intcSTAT
                /\ IOP_VBLANKStart \in s.iSTAT
          /\ s.lineIn + 1 = SCANLINES_PER_FRAME =>
                /\ EE_VBLANKEnd \in s.intcSTAT
                /\ IOP_VBLANKEnd \in s.iSTAT
    /\ now = BootCycles =>
          /\ lineCounter = SCANLINES_PER_VDRAW
          /\ 3 \in csr
          /\ EE_VBLANKStart \in intcSTAT
          /\ IOP_VBLANKStart \in iSTAT

\* C6 as stated: at the end of every HBLANK callback that brings the line
\* counter to 240 the EE INTC has VBLANKStart pending and both the I_STAT bit
\* and the I_MASK bit of VBLANKStart are 1.
C6_Claim ==
    \A j \in DOMAIN snaps :
        snaps[j].lineIn + 1 = SCANLINES_PER_VDRAW =>
            /\ EE_VBLANKStart \in snaps[j].intcSTAT
            /\ IOP_VBLANKStart \in snaps[j].iSTAT
            /\ IOP_VBLANKStart \in snaps[j].iMASK

\* C6 amended: at the end of every HBLANK callback that brings the line
\* counter to 240 the EE INTC has VBLANKStart pending and the I_STAT bit of
\* VBLANKStart is 1; the callback leaves I_MASK as the program last wrote it.
C6_Amended ==
    \A j \in DOMAIN snaps :
        snaps[j].lineIn + 1 = SCANLINES_PER_VDRAW =>
            /\ EE_VBLANKStart \in snaps[j].intcSTAT
            /\ IOP_VBLANKStart \in snaps[j].iSTAT
            /\ snaps[j].iMASK = snaps[j].maskIn

\* C6 witness: a callback brought the line counter to 240 and raised both
\* VBLANKStart flags while the I_MASK bit of VBLANKStart was clear.
C6_Witness ==
    \E j \in DOMAIN snaps :
        /\ snaps[j].lineIn + 1 = SCANLINES_PER_VDRAW
        /\ EE_VBLANKStart \notin snaps[j].intcIn
        /\ IOP_VBLANKStart \notin snaps[j].iIn
        /\ IOP_VBLANKStart \notin snaps[j].iMASK
        /\ IOP_VBLANKStart \in snaps[j].iSTAT

TransferEndsFired ==
    {j \in DOMAIN fired : fired[j].id = idTransferEnd /\ fired[j].param = SIF0}

\* C7: no transfer-end event of a channel is dispatched while the channel
\* still has words of a tag to move (channel.len > 0).
C7_Claim == \A j \in TransferEndsFired : fired[j].len = 0

\* The addresses a SIF0 chain starting at tadr reads its FIFO words from, in
\* the order of the walk, for at least n words: per tag the two EE-tag words
\* at tadr + 8 and tadr + 12, then len words from madr upward.
RECURSIVE ChainAddrs(_, _, _)
ChainAddrs(m, tadr, n) ==
    IF n <= 0 THEN <<>>
    ELSE LET dmaTag == readTag(m, tadr)
             madr == Val(dmaTag \cap (2..23))
             seg == <<tadr + 8, tadr + 12>>
                    \o [i \in 1..tagLen(dmaTag) |-> madr + 4 * (i - 1)]
         IN seg \o ChainAddrs(m, tadr + 16, n - Len(seg))

\* C8 as stated: with L the length field and madr the address of the first
\* tag of the chain, the first L/4 words the EE side pulls are the words at
\* madr + 4*i, i in [0, L/4).
C8_Claim ==
    LET dmaTag == readTag(M, chainStart)
        L == Val({b - 32 : b \in dmaTag \cap (32..51)})
        madr == Val(dmaTag \cap (2..23))
    IN \A i \in 1..Min(L \div 4, Len(pulled)) :
           pulled[i] = readDMAC32(M, madr + 4 * (i - 1))

\* C8 amended: the words the EE side pulls are, in order, for each tag of
\* the chain the two EE-tag words at TADR + 8 and TADR + 12 and then the len
\* words (len counts words, rounded up to a multiple of 4) from madr upward.
C8_Amended ==
    LET addrs == ChainAddrs(M, chainStart, Len(pulled))
    IN \A i \in 1..Len(pulled) : pulled[i] = readDMAC32(M, addrs[i])

\* C8 witness: the EE side has pulled the two EE-tag words and the four data
\* words of a chain the program placed at TagBase.
C8_Witness ==
    /\ chainStart = TagBase
    /\ Len(pulled) >= 6
    /\ pulled[1] = DataWord(TagBase + 8)
    /\ pulled[3] = DataWord(DataBase)

\* The order in which words enter the SIF0 FIFO.
PushOrder ==
    LET addrs == ChainAddrs(M, chainStart, Len(pushLog))
    IN \A i \in 1..Len(pushLog) : pushLog[i] = addrs[i]

C10_Claim ==
    /\ Len(sif0) <= SIF_FIFO_SIZE
    /\ \A j \in DOMAIN bursts : bursts[j].fill < SIF_FIFO_SIZE

\* C11: the transfer routine of an IOP DMA channel is entered only when
\* DMACEN is set and the channel's CHCR.str, DRQ and enable bit are all set,
\* whichever register write or DRQ change started it.
C11_Claim ==
    \A j \in DOMAIN bursts :
        /\ bursts[j].dmacen
        /\ bursts[j].str
        /\ bursts[j].drq
        /\ bursts[j].cde

LastStep == hist[Len(hist)]

LastCPU == IF LastStep.cpu = "EE" THEN ee ELSE iop

\* A branch or jump instruction word.
IsBranch(instr) ==
    \/ getOpcode(instr) \in {J, JAL, BEQ, BNE, BEQL, BNEL}
    \/ getOpcode(instr) = SPECIAL /\ getFunct(instr) \in {JR, JALR}

\* C13: on both processors a branch or jump executed with slot[0] set aborts
\* with the branch-in-delay-slot error and leaves every register (the link
\* register included), PC and NPC as the fetch left them; an instruction
\* executed with slot[0] clear never raises that error.
C13_Theorem ==
    hist # <<>> =>
        /\ (IsBranch(LastStep.instr) /\ LastStep.slot) =>
              /\ fault = "branch in delay slot"
              /\ LastCPU.regs = LastStep.regs
              /\ LastCPU.pc = LastStep.pc
              /\ LastCPU.npc = LastStep.npc
        /\ ~LastStep.slot => fault # "branch in delay slot"

\* A JAL in the delay slot of a taken branch has aborted, on the EE.
C13_Witness ==
    /\ Len(hist) = 2
    /\ LastStep.cpu = "EE"
    /\ getOpcode(hist[1].instr) = BEQ
    /\ getOpcode(LastStep.instr) = JAL
    /\ LastStep.slot
    /\ fault = "branch in delay slot"

\* The EE conditional branches with a 16-bit offset, and whether the step h
\* took the branch (the comparison is on the low 64 bits).
IsCondBranch(instr) == getOpcode(instr) \in {BEQ, BNE, BEQL, BNEL}

Taken(h) ==
    (h.regs[getRs(h.instr)].lo = h.regs[getRt(h.instr)].lo)
        <=> (getOpcode(h.instr) \in {BEQ, BEQL})

\* A + 4 + (sign-extended imm << 2)
TargetOf(h) ==
    Add32(Add32(h.cpc, {2}), Shl(SignExt(h.instr \cap (0..15), 16, 32), 2, 32))

\* C14: after a taken EE branch at A, executed outside a delay slot, the
\* next instruction executed is the one at A + 4, the PC is the target
\* T = A + 4 + (sign-extended imm << 2) once that instruction has run, and
\* the instruction after it is the one at T; after a branch that is not
\* taken and not likely the instructions at A + 4 and A + 8 follow.
C14_Theorem ==
    \A i \in DOMAIN hist :
        (hist[i].cpu = "EE" /\ IsCondBranch(hist[i].instr) /\ ~hist[i].slot) =>
            /\ (Taken(hist[i]) /\ Len(hist) > i) =>
                  /\ hist[i + 1].cpc = Add32(hist[i].cpc, {2})
                  /\ Len(hist) = i + 1 => ee.pc = TargetOf(hist[i])
                  /\ Len(hist) > i + 1 => hist[i + 2].cpc = TargetOf(hist[i])
            /\ (~Taken(hist[i]) /\ getOpcode(hist[i].instr) \in {BEQ, BNE}
                   /\ Len(hist) > i) =>
                  /\ hist[i + 1].cpc = Add32(hist[i].cpc, {2})
                  /\ Len(hist) > i + 1 =>
                        hist[i + 2].cpc = Add32(hist[i].cpc, {3})

\* BEQ r0, r0, +2 at the reset vector, ORI t1, t1, 0x1234 in its delay slot,
\* then an instruction fetched at the target 0xBFC0000C.
C14_Witness ==
    /\ Len(hist) = 3
    /\ hist[1].cpu = "EE"
    /\ hist[1].cpc = RESET_VECTOR
    /\ hist[1].instr = IType(BEQ, 0, 0, 2)
    /\ hist[2].instr = IType(ORI, 9, 9, 4660)
    /\ ee.regs[9].lo = BitsOf(4660)
    /\ hist[3].cpc = RESET_VECTOR \cup {2, 3}
    /\ Alive(M)

\* C15: general-purpose register 0 reads as 0 on both processors after any
\* sequence of instructions; on the EE both 64-bit lanes are zero.
C15_Theorem ==
    /\ ee.regs[0] = [lo |-> {}, hi |-> {}]
    /\ iop.regs[0] = {}

\* The IOP has executed LUI t0, 0xBFC0, JALR r0, t0 (register 0 is the link
\* register) and LUI r0, 0x1234 in the delay slot.
C15_Witness ==
    /\ Len(hist) = 3
    /\ LastStep.cpu = "IOP"
    /\ hist[2].instr = RType(SPECIAL, 8, 0, 0, 0, JALR)
    /\ hist[3].instr = IType(LUI, 0, 0, 4660)
    /\ iop.pc = RESET_VECTOR
    /\ Alive(M)

\* The EE instructions of the quadword class, and the register an
\* instruction with a result of 32 bits stores it in: the sum of ADDIU, the
\* immediate of LUI, the word of LW, the return address of JAL and JALR.
IsQuadword(instr) == getOpcode(instr) \in {LQ, MMI}

Dest32(instr) ==
    CASE getOpcode(instr) \in {ADDIU, LUI, LW} -> getRt(instr)
      [] getOpcode(instr) = JAL -> RA
      [] getOpcode(instr) = SPECIAL /\ getFunct(instr) = JALR -> getRd(instr)
      [] OTHER -> 0

IsScratchpad(addr) == addr \cap (28..31) = {28, 29, 30}

\* C17: a write at a scratchpad address followed by a read of the same width
\* at a scratchpad address with the same low 14 bits returns the written
\* value, for the widths of 1, 2, 4, 8 and 16 bytes, and a scratchpad access
\* neither goes to the bus nor changes main RAM.
C17_Theorem ==
    /\ \A k \in DOMAIN acc :
          IsScratchpad(acc[k].addr) =>
              /\ ~acc[k].bus
              /\ k = Len(acc) => ram = acc[k].ram
    /\ \A k \in DOMAIN acc :
          (/\ k + 1 \in DOMAIN acc
           /\ acc[k].kind = "write" /\ acc[k + 1].kind = "read"
           /\ acc[k].width = acc[k + 1].width
           /\ IsScratchpad(acc[k].addr) /\ IsScratchpad(acc[k + 1].addr)
           /\ acc[k].addr \cap (0..13) = acc[k + 1].addr \cap (0..13))
          => acc[k + 1].data = acc[k].data \cap (0..(8 * acc[k].width - 1))

\* A quadword written at 0x70000000 has been read back at 0x70004000.
C17_Witness ==
    /\ Len(acc) = 2
    /\ acc[1].kind = "write" /\ acc[1].width = 16 /\ acc[1].addr = {28, 29, 30}
    /\ acc[2].kind = "read" /\ acc[2].width = 16 /\ acc[2].addr = {14, 28, 29, 30}
    /\ acc[2].data = {0, 7, 8, 15, 31, 33, 63, 64, 100, 127}
    /\ ram = << >>

\* The access h is to IOP RAM, or to the scratchpad window after both of its
\* control registers have been written.
InRAM(h) == h.addr + h.width <= IOPRAMSize

InSetWindow(h) ==
    /\ h.addr >= IOPRAMSize
    /\ h.start = WindowStart /\ h.end = WindowEnd
    /\ ~ULt(BitsOf(h.addr), h.start) /\ ULt(BitsOf(h.addr + h.width - 1), h.end)

\* C18: an IOP write of w at a width of 1, 2 or 4 bytes to an address in RAM
\* or in the scratchpad window completes and changes only those bytes (at
\* a - spram_start of the scratchpad, or at a in RAM), and a following read
\* of the address at the same or a smaller width returns the low bytes of w.
C18_Claim ==
    \A k \in DOMAIN acc :
        (acc[k].kind = "write" /\ (InRAM(acc[k]) \/ InSetWindow(acc[k]))) =>
            /\ (k = Len(acc) /\ lastOp = "writeIOP") =>
                  /\ Alive(M)
                  /\ IF InRAM(acc[k])
                     THEN /\ iopSPRAM = acc[k].spr
                          /\ \A wa \in DOMAIN iopRAM :
                                (wa < acc[k].addr - 4 \/ wa > acc[k].addr + 7) =>
                                    iopRAM[wa] = readDMAC32([iopRAM |-> acc[k].ram], wa)
                          /\ \A a \in (acc[k].addr - 4)..(acc[k].addr + 7) :
                                ramByte(M, a) =
                                    IF a \in acc[k].addr..(acc[k].addr + acc[k].width - 1)
                                    THEN {b - 8 * (a - acc[k].addr) :
                                            b \in acc[k].data \cap
                                                ((8 * (a - acc[k].addr))..(8 * (a - acc[k].addr) + 7))}
                                    ELSE ramByte([iopRAM |-> acc[k].ram], a)
                     ELSE /\ iopRAM = acc[k].ram
                          /\ iopSPRAM = WriteBytes(acc[k].spr, acc[k].addr - Val(acc[k].start),
                                                   acc[k].width, acc[k].data)
            /\ (/\ k + 1 \in DOMAIN acc
                /\ acc[k + 1].kind = "read"
                /\ acc[k + 1].addr = acc[k].addr
                /\ acc[k + 1].width <= acc[k].width)
               => acc[k + 1].data = acc[k].data \cap (0..(8 * acc[k + 1].width - 1))

\* The offset in the disc image of the k-th word (k = 1, 2, ...) of a read
\* of 2048-byte sectors from sector pos on: 512 words per sector.
WordOffset(pos, k) == 2048 * (pos + (k - 1) \div 512) + 4 * ((k - 1) % 512)

\* C19: after a ReadCD command with pos = p, num = n and 2048-byte sectors
\* the k-th read of the data register returns word k of sectors p .. p+n-1;
\* the N-command status is BUSY from the command to the last read; the CDVD
\* interrupt is raised once, by the read of the last word of sector p+n-1,
\* which leaves the drive status PAUSED + SPINNING and the N-command status
\* READY.
C19_Theorem ==
    cdvd.cmds > 0 =>
        /\ cdvd.reads > 0 =>
              /\ cdvd.last.data = WordOffset(cdvd.pos, cdvd.reads)
              /\ cdvd.last.irqs = 0
              /\ cdvd.last.ncmdstat = {BUSY}
        /\ cdvd.reads < 512 * cdvd.num =>
              /\ cdvd.irqs = 0
              /\ IOP_CDVD \notin iSTAT \/ cdvd.cmds > 1
              /\ Alive(M) => cdvd.ncmdstat = {BUSY}
        /\ cdvd.reads = 512 * cdvd.num =>
              /\ cdvd.irqs = 1
              /\ IOP_CDVD \in iSTAT
              /\ cdvd.drivestat = {PAUSED, SPINNING}
              /\ cdvd.ncmdstat = {READY}
        /\ cdvd.reads <= 512 * cdvd.num

\* The second command of a run, for two sectors, has delivered its last
\* word, the last word of sector 101.
C19_Witness ==
    /\ cdvd.cmds = 2
    /\ cdvd.num = 2
    /\ cdvd.reads = 1024
    /\ cdvd.last.data = 2048 * 101 + 2044
    /\ cdvd.irqs = 1
    /\ lastOp = "readDMAC"

\* An IOP store instruction.
IsStore(instr) == getOpcode(instr) \in {SB, SH, SW}

\* C20: while the cache-isolated bit of the IOP's Status is set a store (SB,
\* SH, SW) leaves IOP RAM unchanged, and a load of a byte from the address
\* of such a store, executed right after it, completes and returns the byte
\* that was there before the store, sign-extended.
C20_Claim ==
    \A k \in DOMAIN hist :
        (hist[k].cpu = "IOP" /\ IsStore(hist[k].instr) /\ hist[k].isolated) =>
            /\ k = Len(hist) => (Alive(M) /\ iopRAM = hist[k].ram)
            /\ (k + 1 = Len(hist) /\ hist[k + 1].instr = IType(LB, 5, 2, 3)
                  /\ hist[k].regs[5] = {16}) =>
                  /\ Alive(M)
                  /\ iop.regs[2] = SignExt(ramByte([iopRAM |-> hist[k].ram], 65539), 8, 32)

\* The stores alone: an isolated store leaves IOP RAM unchanged.
C20_StoresOnly ==
    \A k \in DOMAIN hist :
        (hist[k].cpu = "IOP" /\ IsStore(hist[k].instr) /\ hist[k].isolated
           /\ k = Len(hist)) => (Alive(M) /\ iopRAM = hist[k].ram)

\* C21: in every iteration of the main loop the EE executes the cycles up
\* to the next event, then the IOP an eighth of them, and only then are the
\* events dispatched that these cycles made due: when a callback runs, the
\* EE has executed every cycle the scheduler has counted and the IOP has
\* executed its share of each iteration.
C21_Claim ==
    lastOp = "run" =>
        \A j \in DOMAIN fired : fired[j].eeDone = fired[j].at

\* What the program keeps of an event: id, param and counter.
Counters(q) ==
    [i \in DOMAIN q |-> <<q[i].id, q[i].param, q[i].cyclesUntilEvent>>]

\* The events of q that are due once cc cycles are subtracted, as the
\* callbacks see them, and the others with what is left of their counters.
DueOf(q, cc) ==
    LET IsDue(ev) == ev.cyclesUntilEvent - cc <= 0
        due == SelectSeq(q, IsDue)
    IN [i \in DOMAIN due |-> <<due[i].id, due[i].param, due[i].cyclesUntilEvent - cc>>]

KeptOf(q, cc) ==
    LET IsKept(ev) == ev.cyclesUntilEvent - cc > 0
        kept == SelectSeq(q, IsKept)
    IN [i \in DOMAIN kept |-> <<kept[i].id, kept[i].param, kept[i].cyclesUntilEvent - cc>>]

\* C22: processEvents(elapsed) runs no callback and changes no counter when
\* cycleCount + elapsed is below cyclesUntilNextEvent; otherwise every event
\* queued at the start has the accumulated cycleCount subtracted once, exactly
\* the events whose counter is then <= 0 are removed and called once with
\* their param and residual, the others stay queued with a counter above 0,
\* and on return cyclesUntilNextEvent is the minimum over the queue.
C22_Claim ==
    [][lastOp' = "processEvents" =>
         LET cc == cycleCount + (now' - now)
             kept == KeptOf(events, cc)
         IN IF cc < cyclesUntilNextEvent
            THEN fired' = <<>> /\ Counters(events') = Counters(events)
            ELSE /\ fault' = "none"
                 /\ [j \in DOMAIN fired' |->
                        <<fired'[j].id, fired'[j].param, fired'[j].residual>>]
                      = DueOf(events, cc)
                 /\ \A j \in DOMAIN fired' : fired'[j].residual <= 0
                 /\ Len(events') >= Len(kept)
                 /\ SubSeq(Counters(events'), Len(events') - Len(kept) + 1,
                           Len(events')) = kept
                 /\ cyclesUntilNextEvent' = MinCycles(events')]_vars

\* The same statement for the calls in which the build keeps the loop's
\* iterator usable and no callback ends the process.
C22_Completed ==
    [][(lastOp' = "processEvents" /\ fault' = "none") =>
         LET cc == cycleCount + (now' - now)
             kept == KeptOf(events, cc)
         IN IF cc < cyclesUntilNextEvent
            THEN fired' = <<>> /\ Counters(events') = Counters(events)
            ELSE /\ [j \in DOMAIN fired' |->
                        <<fired'[j].id, fired'[j].param, fired'[j].residual>>]
                      = DueOf(events, cc)
                 /\ \A j \in DOMAIN fired' : fired'[j].residual <= 0
                 /\ Len(events') >= Len(kept)
                 /\ SubSeq(Counters(events'), Len(events') - Len(kept) + 1,
                           Len(events')) = kept
                 /\ cyclesUntilNextEvent' = MinCycles(events')]_vars

\* C23 as stated: a write of d to I_STAT clears exactly the bits of I_STAT
\* that are 1 in d and leaves the others, and a write to I_MASK replaces
\* I_MASK with the written value.
C23_Claim ==
    /\ lastOp = "writeStatIOP" => iSTAT = io.iSTAT \ io.data
    /\ lastOp = "writeMaskIOP" => iMASK = io.data

\* C23 amended: a write of d to I_STAT leaves I_STAT & d, so it clears
\* exactly the bits of I_STAT that are 0 in d and leaves the bits that are 1
\* in d (writing 0 clears I_STAT); a write of d to I_MASK replaces I_MASK
\* with the low 26 bits of d.
C23_Amended ==
    /\ lastOp = "writeStatIOP" => iSTAT = io.iSTAT \cap io.data
    /\ lastOp = "writeMaskIOP" => iMASK = io.data \cap (0..25)

\* C23 witness: a write of the DMA bit to I_STAT, with VBLANKStart and DMA
\* pending, has cleared VBLANKStart and kept DMA.
C23_Witness ==
    /\ lastOp = "writeStatIOP"
    /\ io.data = {IOP_DMA}
    /\ io.iSTAT = {IOP_VBLANKStart, IOP_DMA}
    /\ iSTAT = {IOP_DMA}

\* C24: after every IOP INTC operation (a write of I_STAT, I_MASK or I_CTRL,
\* a read of I_CTRL, a raised source) the pending flag delivered to the IOP's
\* COP0 is I_CTRL && ((I_STAT & I_MASK) != 0); a read of I_CTRL returns the
\* previous value, leaves I_CTRL cleared and drops the pending flag.
C24_Theorem ==
    /\ lastOp \in {"writeStatIOP", "writeMaskIOP", "writeCtrlIOP", "readCtrlIOP",
                   "sendInterruptIOP"} =>
          interruptPending = (iCTRL /\ (iSTAT \cap iMASK) # {})
    /\ lastOp = "readCtrlIOP" =>
          /\ io.ret = io.iCTRL
          /\ ~iCTRL
          /\ ~interruptPending

\* C24 witness: I_CTRL was read as 1 while an unmasked source was pending;
\* the source is still pending in I_STAT and I_MASK but the flag is down.
C24_Witness ==
    /\ lastOp = "readCtrlIOP"
    /\ io.ret
    /\ io.iSTAT \cap io.iMASK # {}
    /\ iSTAT \cap iMASK # {}
    /\ ~interruptPending

EEEligible(ch) == 16 \notin enable /\ dmae /\ ch \in eeDrq /\ ch \in eeStr

\* C26: an EE DMA channel's transfer path is entered iff D_ENABLE bit 16 is
\* 0, D_CTRL.DMAE is 1, its DRQ is true and its CHCR.str is set, by the
\* per-channel check (CHCR write, DRQ change) and by the all-channel check
\* (D_CTRL, D_PCR, D_ENABLE writes) alike; D_ENABLE bit 16 is never set, and
\* a write that sets it is fatal and leaves D_ENABLE unchanged.
C26_Claim ==
    /\ 16 \notin enable
    /\ lastOp \in {"eeWriteCHCR", "eeSetDRQ"} =>
          ((fault = "exit") <=> EEEligible(io.chn))
    /\ (lastOp \in {"eeWriteCTRL", "eeWritePCR", "eeWriteEnable"}
          /\ 16 \notin io.data) =>
          ((fault = "exit") <=> \E ch \in 0..9 : EEEligible(ch))
    /\ (lastOp = "eeWriteEnable" /\ 16 \in io.data) =>
          fault = "exit" /\ enable = io.enable

\* The same statement while D_PCR.PCE is 0.
C26_NoPriority ==
    ~eePcr.pce => C26_Claim

\* C27: when a SIF0 burst starts with len = 0 the DMAtag read at TADR is
\* decoded as MADR = tag & 0xFFFFFC, len = bits 32..51 of the tag rounded up
\* to a multiple of 4, isTagEnd true iff bit 30 or bit 31 of the tag is set,
\* and TADR advances by 16; a tag with neither bit set does not end the chain.
C27_Claim ==
    \A j \in DOMAIN bursts :
        bursts[j].fetched =>
            LET tag == bursts[j].tag
                len == Val({b - 32 : b \in tag \cap (32..51)})
                d == bursts[j].decoded
            IN /\ d.madr = Val(tag \cap (2..23))
               /\ d.len = 4 * ((len + 3) \div 4)
               /\ d.isTagEnd = (tag \cap {30, 31} # {})
               /\ d.tadr = bursts[j].tadr + 16

\* The decode without the end flag.
C27_Fields ==
    \A j \in DOMAIN bursts :
        bursts[j].fetched =>
            LET tag == bursts[j].tag
                len == Val({b - 32 : b \in tag \cap (32..51)})
                d == bursts[j].decoded
            IN /\ d.madr = Val(tag \cap (2..23))
               /\ d.len = 4 * ((len + 3) \div 4)
               /\ d.tadr = bursts[j].tadr + 16

\* The operations that can change DICR or DICR2.
DicrOp == lastOp \in {"writeDICR", "writeDICR2", "transferEndEvent"}

\* C28: after every operation that can change DICR or DICR2 (register
\* writes and transfer-end events) DICR.mif is
\* cie && (bef || (mie && (DICR.ip != 0 || DICR2.ip != 0))).
C28_Theorem ==
    DicrOp =>
        dicr.mif = (cie /\ (dicr.bef \/ (dicr.mie /\ (dicr.ip # {} \/ dicr2.ip # {}))))

\* C28 witness: a transfer-end event of SIF0 has set its pending bit in
\* DICR2 and so raised mif.
C28_Witness ==
    /\ lastOp = "transferEndEvent"
    /\ ~io.mif
    /\ dicr.mif
    /\ ~dicr.bef
    /\ dicr2.ip = {SIF0 - 7}

\* The DMA interrupts the last operation has sent to the IOP INTC.
DMASent == Len(SelectSeq(sent, LAMBDA i : i = IOP_DMA))

\* C29: the DMA interrupt is sent to the IOP INTC exactly at the operations
\* that find mif false and leave it true (mid being false); while mif stays
\* true a further transfer-end event or register write sends none.
C29_Theorem ==
    DicrOp => DMASent = (IF ~io.mif /\ dicr.mif /\ ~mid THEN 1 ELSE 0)

\* C29 witness: with mif already true a second transfer-end event has set a
\* further pending bit and has sent no interrupt.
C29_Witness ==
    /\ lastOp = "transferEndEvent"
    /\ io.mif
    /\ dicr.mif
    /\ io.ip2 = {SIF0 - 7}
    /\ dicr2.ip = {SIF0 - 7, SIF1 - 7}
    /\ DMASent = 0

\* C30: a write to DICR2 clears exactly the DICR2.ip bits written as 1 in
\* bits 24 and up and sets none, whatever DICR.ip is; a write to DICR clears
\* exactly the DICR.ip bits written as 1.
C30_Claim ==
    /\ lastOp = "writeDICR2" =>
          dicr2.ip = io.ip2 \ {b - 24 : b \in io.data \cap (24..31)}
    /\ lastOp = "writeDICR" =>
          dicr.ip = io.ip \ {b - 24 : b \in io.data \cap (24..31)}

\* The transfer-end events the last call has dispatched.
TransferEnds(f) == SelectSeq(f, LAMBDA e : e.id = idTransferEnd)

\* C31: the transfer-end event of IOP channel c clears CHCR.str and isTagEnd
\* of channel c and sets exactly the pending bit of channel c (DICR.ip bit c
\* for c < 7, DICR2.ip bit c - 7 otherwise) iff the channel's mask bit is
\* set; the str, pending and mask bits of every other channel stay.  Stated
\* over a drain sweep and the channels whose transfer-end events it runs.
C31_Theorem ==
    [][(lastOp' = "processEvents" /\ fault' = "none") =>
         LET ended == {TransferEnds(fired')[j].param :
                          j \in DOMAIN TransferEnds(fired')}
         IN /\ \A c \in ended : ~channels'[c].str /\ ~channels'[c].isTagEnd
            /\ dicr'.ip = dicr.ip \cup {c \in ended : c < 7 /\ c \in dicr.im}
            /\ dicr2'.ip = dicr2.ip \cup
                  {c - 7 : c \in {e \in ended : e >= 7 /\ (e - 7) \in dicr2.im}}
            /\ dicr'.im = dicr.im
            /\ dicr2'.im = dicr2.im
            /\ \A d \in DOMAIN channels :
                  d \notin ended => channels'[d].str = channels[d].str]_vars

\* C31 witness: the transfer-end event of SIF0 found str and isTagEnd set
\* and the mask bit of channel 9 set; both are clear now and DICR2.ip has
\* the bit of channel 9 alone.
C31_Witness ==
    /\ lastOp = "processEvents"
    /\ fault = "none"
    /\ \E j \in DOMAIN fired :
          /\ fired[j].id = idTransferEnd
          /\ fired[j].param = SIF0
          /\ fired[j].str
          /\ fired[j].isTagEnd
    /\ ~channels[SIF0].str
    /\ ~channels[SIF0].isTagEnd
    /\ dicr2.im = {SIF0 - 7}
    /\ dicr2.ip = {SIF0 - 7}

\* C31, the other branch: with the mask bit clear the event has left the
\* pending bits as they were.
C31_Masked ==
    /\ lastOp = "processEvents"
    /\ fault = "none"
    /\ \E j \in DOMAIN fired :
          fired[j].id = idTransferEnd /\ fired[j].param = SIF0 /\ fired[j].str
    /\ ~channels[SIF0].str
    /\ dicr2.im = {}
    /\ dicr2.ip = {}

\* The EE steps of the history that executed BEQL or BNEL outside a delay
\* slot, and whether the branch condition held in the registers they found.
IsLikely(h) == h.cpu = "EE" /\ getOpcode(h.instr) \in {BEQL, BNEL} /\ ~h.slot

LikelyCond(h) ==
    LET eq == h.regs[getRs(h.instr)].lo = h.regs[getRt(h.instr)].lo
    IN IF getOpcode(h.instr) = BEQL THEN eq ELSE ~eq

\* C32: after BEQL or BNEL at A with a false condition the instruction at
\* A + 4 is not executed: the next instruction executed is the one at A + 8
\* and it is not in a delay slot, so a branch there runs; with a true
\* condition the next instruction is the delay slot at A + 4 and the one
\* after it is the branch target, as for BEQ and BNE.
C32_Theorem ==
    \A i \in DOMAIN hist :
        IsLikely(hist[i]) =>
            LET A == hist[i].cpc
                target == Add32(Add32(A, {2}),
                                Shl(SignExt(getImm(hist[i].instr), 16, 32), 2, 32))
            IN /\ (i < Len(hist) \/ Alive(M))
               /\ i < Len(hist) =>
                     IF LikelyCond(hist[i])
                     THEN /\ hist[i + 1].cpc = Add32(A, {2})
                          /\ hist[i + 1].slot
                          /\ hist[i + 1].pc = target
                     ELSE /\ hist[i + 1].cpc = Add32(A, {3})
                          /\ ~hist[i + 1].slot
                          /\ hist[i + 1].pc = Add32(A, BitsOf(12))
               /\ i = Len(hist) =>
                     IF LikelyCond(hist[i])
                     THEN /\ ee.pc = Add32(A, {2})
                          /\ ee.npc = target
                          /\ ee.inDelaySlot = <<FALSE, TRUE>>
                     ELSE /\ ee.pc = Add32(A, {3})
                          /\ ee.npc = Add32(A, BitsOf(12))
                          /\ ee.inDelaySlot = <<FALSE, FALSE>>

\* C32 witness: BEQL at A was not taken and the next instruction executed,
\* at A + 8, was a branch that ran.
C32_Witness ==
    /\ Len(hist) = 3
    /\ Alive(M)
    /\ IsLikely(hist[2])
    /\ getOpcode(hist[2].instr) = BEQL
    /\ ~LikelyCond(hist[2])
    /\ hist[3].cpc = Add32(hist[2].cpc, {3})
    /\ getOpcode(hist[3].instr) = BEQ

\* C32, the other branch: BNEL was taken and its delay slot was executed.
C32_Taken ==
    /\ Len(hist) = 3
    /\ Alive(M)
    /\ IsLikely(hist[2])
    /\ getOpcode(hist[2].instr) = BNEL
    /\ LikelyCond(hist[2])
    /\ hist[3].slot

\* The IOP steps of the history that executed SYSCALL.
IsSyscall(h) ==
    h.cpu = "IOP" /\ getOpcode(h.instr) = SPECIAL /\ getFunct(h.instr) = SYSCALL

\* C33: when the IOP raises an exception (SYSCALL, code 8) the PC becomes
\* 0xBFC00180 if Status.BEV is set and 0x80000080 otherwise; in a branch
\* delay slot EPC = cpc - 4 and Cause.BD is set, otherwise EPC = cpc and
\* Cause.BD is clear; both delay-slot flags are cleared, so the first
\* instruction of the handler is not in a delay slot.
C33_Theorem ==
    \A i \in DOMAIN hist :
        IsSyscall(hist[i]) =>
            LET h == hist[i]
                vector == IF h.bev THEN RESET_VECTOR \cup {7, 8} ELSE {7, 31}
            IN /\ (i < Len(hist) \/ Alive(M))
               /\ i < Len(hist) => hist[i + 1].cpc = vector /\ ~hist[i + 1].slot
               /\ i = Len(hist) =>
                     /\ iop.pc = vector
                     /\ iop.npc = Add32(vector, {2})
                     /\ iop.inDelaySlot = <<FALSE, FALSE>>
                     /\ Field(iop.cause, 2, 6) = 8
                     /\ (31 \in iop.cause) = h.slot
                     /\ Add32(iop.epc, IF h.slot THEN {2} ELSE {}) = h.cpc

\* C33 witness: with Status.BEV set, SYSCALL in the delay slot of a branch
\* has gone to 0xBFC00180 with Cause.BD set and EPC at the branch.
C33_Witness ==
    /\ Len(hist) = 4
    /\ Alive(M)
    /\ IsSyscall(hist[4])
    /\ hist[4].bev
    /\ hist[4].slot
    /\ getOpcode(hist[3].instr) = BEQ
    /\ iop.pc = RESET_VECTOR \cup {7, 8}
    /\ 31 \in iop.cause
    /\ iop.epc = hist[3].cpc

\* C33, the other cases: SYSCALL outside a delay slot with BEV clear, and
\* the first instruction of the handler.
C33_Plain ==
    /\ Len(hist) = 2
    /\ Alive(M)
    /\ IsSyscall(hist[1])
    /\ ~hist[1].bev
    /\ ~hist[1].slot
    /\ hist[2].cpc = {7, 31}
    /\ iop.epc = RESET_VECTOR
    /\ 31 \notin iop.cause

\* The seek time of a CD read over delta sectors.
SeekCyclesCD(delta) ==
    IF delta < 8 THEN MulDiv(IOP_CLOCK, cdvd.size, READ_SPEED_CD) * delta
    ELSE IF delta < 4371 THEN IOP_CLOCK \div 33
    ELSE IOP_CLOCK \div 10

\* C34: doSeek of a CD read with delta = |pos - oldSectorNum| takes
\* (IOP_CLOCK * size / read speed) * delta cycles if delta < 8, IOP_CLOCK / 33
\* if 8 <= delta < 4371 and IOP_CLOCK / 10 otherwise; one finish-seek event
\* is scheduled, at 8 times that; the drive status is SEEKING + SPINNING if
\* delta > 0 and READING if delta = 0; oldSectorNum is the last sector the
\* previous read has delivered.
C34_Theorem ==
    (lastOp = "ncmdReadCD" /\ Alive(M)) =>
        LET delta == Abs(cdvd.pos - cdvd.oldSectorNum)
        IN /\ cdvd.seekDelay = 8 * SeekCyclesCD(delta)
           /\ cdvd.finishSeek = 1
           /\ cdvd.drivestat = (IF delta > 0 THEN {SEEKING, SPINNING} ELSE {READING})
           /\ cdvd.oldSectorNum = (IF cdvd.delivered < 0 THEN 0 ELSE cdvd.delivered)

\* C34 witness: after a read of sectors 7 and 8 a read at sector 4371 seeks
\* over 4363 sectors, a fast seek.
C34_Witness ==
    /\ lastOp = "ncmdReadCD"
    /\ Alive(M)
    /\ cdvd.cmds = 2
    /\ cdvd.delivered = 8
    /\ cdvd.oldSectorNum = 8
    /\ cdvd.pos = 4371
    /\ cdvd.seekDelay = 8 * (IOP_CLOCK \div 33)
    /\ cdvd.drivestat = {SEEKING, SPINNING}

\* C34, the other regimes: a contiguous read one sector on, a read of the
\* sector the head is at, and a full seek over 4371 sectors.
C34_Contiguous ==
    /\ lastOp = "ncmdReadCD"
    /\ Alive(M)
    /\ cdvd.delivered = 7
    /\ cdvd.pos = 8
    /\ cdvd.seekDelay = 8 * 20480

C34_Still ==
    /\ lastOp = "ncmdReadCD"
    /\ Alive(M)
    /\ cdvd.delivered = 8
    /\ cdvd.pos = 8
    /\ cdvd.seekDelay = 0
    /\ cdvd.drivestat = {READING}

C34_Full ==
    /\ lastOp = "ncmdReadCD"
    /\ Alive(M)
    /\ cdvd.delivered = 0
    /\ cdvd.pos = 4371
    /\ cdvd.seekDelay = 8 * 3686400

\* s is a prefix of t.
IsPrefix(s, t) == Len(s) <= Len(t) /\ s = SubSeq(t, 1, Len(s))

\* C35: in every state reached by S-command writes and SCMDDATA reads,
\* SCMDSTAT.NODATA is set iff the response queue is empty, and the bytes
\* read are the bytes pushed, in the order they were pushed.
C35_Claim ==
    /\ Alive(M)
    /\ ~cdvd.underrun
    /\ (NODATA \in cdvd.scmdstat) <=> (cdvd.scmdData = <<>>)
    /\ IsPrefix(cdvd.popped, cdvd.pushed)
    /\ cdvd.pushed = cdvd.popped \o cdvd.scmdData

\* The same while SCMDDATA is only read with a byte queued and Subcommand is
\* only written with its parameter queued.
C35_NoUnderrun ==
    (Alive(M) /\ ~cdvd.underrun) =>
        /\ (NODATA \in cdvd.scmdstat) <=> (cdvd.scmdData = <<>>)
        /\ IsPrefix(cdvd.popped, cdvd.pushed)
        /\ cdvd.pushed = cdvd.popped \o cdvd.scmdData

\* A timer that counts HBLANKs.
CountsHBLANK(t) == t.cue /\ t.clks = 3

\* C36: on an HBLANK every EE timer with counting enabled and CLKS = HBLANK
\* has COUNT incremented by one and every other timer is unchanged; when
\* the tick makes COUNT equal COMP with CMPE set and EQUF clear, EQUF becomes
\* set and emulation continues, and with ZRET COUNT becomes 0; when the tick
\* sets bit 16 of COUNT, OVFF is set in the same way and COUNT stays within
\* 16 bits.
C36_Claim ==
    lastOp = "stepHBLANK" =>
        /\ Alive(M)
        /\ \A i \in 0..3 :
              LET t == io.timers[i]
                  c == t.count + 1
                  hit == c % 65536 = t.comp
              IN IF CountsHBLANK(t)
                 THEN timers[i] =
                         [t EXCEPT !.count = IF hit /\ t.zret THEN 0 ELSE c % 65536,
                                   !.equf = @ \/ (hit /\ t.cmpe),
                                   !.ovff = @ \/ (c >= 65536 /\ t.ovfe)]
                 ELSE timers[i] = t

\* The part of C36 that holds: when stepHBLANK() returns, the timers that
\* count HBLANKs have COUNT one higher, or 0 after a compare with ZRET, and
\* the other timers are unchanged.
C36_Ticks ==
    (lastOp = "stepHBLANK" /\ Alive(M)) =>
        \A i \in 0..3 :
            LET t == io.timers[i]
                c == t.count + 1
            IN IF CountsHBLANK(t)
               THEN timers[i] =
                       [t EXCEPT !.count = IF c = t.comp /\ t.zret THEN 0 ELSE c]
               ELSE timers[i] = t

\* A timer has counted past 16 bits.
C36_Past16 ==
    /\ lastOp = "stepHBLANK"
    /\ Alive(M)
    /\ CountsHBLANK(io.timers[0])
    /\ timers[0].count = 65537

\* stepHBLANK() has set OVFF and ended the process.
C36_Stopped ==
    /\ lastOp = "stepHBLANK"
    /\ fault = "assert"
    /\ timers[0].ovff
    /\ timers[0].count = 65536

\* What C37 says of a state: the data quadwords consumed since the tag are
\* at most n * r, the tag is finished exactly when they are n * r, the k-th
\* went to the register in nibble k mod r of REGS, and the last quadword was
\* decoded as a tag iff no data of a tag was outstanding.
PackedProgress ==
    LET n == gif.nloop
        r == gif.nregs
    IN (gif.tags > 0 /\ gif.fmt = PACKED) =>
          /\ Len(gif.routed) <= n * r
          /\ gif.hasTag = (Len(gif.routed) < n * r)
          /\ \A k \in 1..Len(gif.routed) :
                gif.routed[k] =
                    Field(gif.regs, 4 * ((k - 1) % r), 4 * ((k - 1) % r) + 3)
          /\ gif.asTag = gif.due

\* C37: after a PACKED GIFtag with NLOOP = n >= 1 and NREGS = r (0 meaning
\* 16) exactly n * r quadwords are consumed as register data, the k-th going
\* to the register named by nibble k mod r of REGS, and the quadword after
\* them is decoded as a new GIFtag; none is taken for a tag while data is
\* outstanding.
C37_Claim == Alive(M) /\ PackedProgress

\* The same for the tags without PRIM.
C37_NoPrim == Alive(M) => PackedProgress

\* Two loops of two registers have been consumed and the next quadword was
\* decoded as a tag.
C37_Consumed ==
    /\ Alive(M)
    /\ gif.tags = 2
    /\ gif.routed = <<1, 5>>
    /\ gif.nloop = 2
    /\ gif.hasTag

\* C38: an EE write of d to MSFLG sets the bits of d and clears none, an
\* IOP write of d to MSFLG clears the bits of d and sets none; an IOP write
\* to SMFLG only sets bits and an EE write to SMFLG only clears bits; a
\* write to one flag register leaves the other alone.
C38_Theorem ==
    /\ (lastOp = "sifWrite" /\ io.reg = MSFLG) =>
          sif.msflg = io.msflg \cup io.data /\ sif.smflg = io.smflg
    /\ (lastOp = "sifWriteIOP" /\ io.reg = MSFLG) =>
          sif.msflg = io.msflg \ io.data /\ sif.smflg = io.smflg
    /\ (lastOp = "sifWriteIOP" /\ io.reg = SMFLG) =>
          sif.smflg = io.smflg \cup io.data /\ sif.msflg = io.msflg
    /\ (lastOp = "sifWrite" /\ io.reg = SMFLG) =>
          sif.smflg = io.smflg \ io.data /\ sif.msflg = io.msflg
    /\ (lastOp \in {"sifWrite", "sifWriteIOP"} /\ io.reg \notin {MSFLG, SMFLG}) =>
          sif.msflg = io.msflg /\ sif.smflg = io.smflg

\* C38 witness: the IOP has acknowledged one of two flags the EE had raised
\* in MSFLG; the other one is still visible.
C38_Witness ==
    /\ lastOp = "sifWriteIOP"
    /\ io.reg = MSFLG
    /\ io.msflg = {0, 1}
    /\ io.data = {0}
    /\ sif.msflg = {1}

\* C38, the consequence: a flag in MSFLG goes away only by an IOP write of
\* its bit to MSFLG, and a flag in SMFLG only by an EE write of its bit to
\* SMFLG.
C38_Visible ==
    [][/\ \A b \in sif.msflg \ sif'.msflg :
             lastOp' = "sifWriteIOP" /\ io'.reg = MSFLG /\ b \in io'.data
       /\ \A b \in sif.smflg \ sif'.smflg :
             lastOp' = "sifWrite" /\ io'.reg = SMFLG /\ b \in io'.data]_vars

\* The words a burst of the last call was to move: what is free in the FIFO
\* after the EE-tag words of a fetched tag, the words left of the tag, 32.
BurstWords(b) ==
    IF b.fetched
    THEN Min(SIF_FIFO_SIZE - (b.fill + 2), Min(b.decoded.len, 32))
    ELSE Min(SIF_FIFO_SIZE - b.fill, Min(b.len, 32))

\* The SIF0 channel is started: CHCR.str, DMACEN and the enable bit are set.
ChainStarted == dmacen /\ cde(M, SIF0) /\ channels[SIF0].str

\* The transfer-end event of SIF0 has run and CHCR.str is clear.
ChainEnded == TransferEndsFired # {} /\ ~channels[SIF0].str

\* C39: a started SIF0 channel whose chain has an end tag and tags of
\* non-zero length, with the EE side draining the FIFO and raising the DRQ
\* again, reaches the transfer-end event with CHCR.str clear after finitely
\* many bursts and drains, and no burst is started that would move zero
\* words.
C39_Claim ==
    /\ ChainStarted ~> ChainEnded
    /\ [](\A j \in DOMAIN bursts : BurstWords(bursts[j]) > 0)

\* C39, what holds: the chain ends unless a drain sweep was lost to the
\* invalidated iterator or CHCR.fst is set.
C39_Progress ==
    ChainStarted ~> (ChainEnded \/ fault = "undefined" \/ channels[SIF0].fst)

\* C39, what holds: with CHCR.fst clear every burst moves at least one word.
C39_NoEmptyBurst ==
    ~channels[SIF0].fst => \A j \in DOMAIN bursts : BurstWords(bursts[j]) > 0

\* C39: the chain of 36 words has ended after two bursts.
C39_TwoBursts ==
    /\ ChainEnded
    /\ fault = "none"
    /\ Len(pushLog) = 38

\* The events of the queue that a drain of now' - now more cycles finds due,
\* from the front of the queue to its back.  addEvent inserts at the front,
\* so this is the reverse of the order of insertion.
SweepDue ==
    LET t == cycleCount + (now' - now)
    IN IF t < cyclesUntilNextEvent THEN <<>>
       ELSE SelectSeq(events, LAMBDA ev : ev.cyclesUntilEvent <= t)

\* The callbacks of a sweep are those of the due events, front to back, and
\* a transfer-end of SIF0 is directly followed by the SIF0 start.
SweepInOrder ==
    /\ Len(fired') = Len(SweepDue)
    /\ \A j \in DOMAIN fired' :
          /\ fired'[j].id = SweepDue[j].id
          /\ fired'[j].param = SweepDue[j].param
          /\ (fired'[j].id = idTransferEnd /\ fired'[j].param = SIF0) =>
                /\ j < Len(fired')
                /\ fired'[j + 1].id = idSIF0Start
                /\ fired'[j + 1].residual = fired'[j].residual

\* A SIF0 burst has put its events at the front of the queue: the SIF0 start
\* first and, when the burst ends the last tag, the transfer-end in front of
\* it with the same delay.
BurstQueued ==
    \E k \in 1..2 :
        /\ Len(events') = Len(events) + k
        /\ SubSeq(events', k + 1, Len(events')) = events
        /\ events'[k].id = idSIF0Start
        /\ k = 2 <=> (channels'[SIF0].len = 0 /\ channels'[SIF0].isTagEnd)
        /\ k = 2 =>
              /\ events'[1].id = idTransferEnd
              /\ events'[1].param = SIF0
              /\ events'[1].cyclesUntilEvent = events'[2].cyclesUntilEvent

C40_Completed ==
    [][/\ (lastOp' = "processEvents" /\ fault' = "none") => SweepInOrder
       /\ (lastOp' # "processEvents" /\ Len(bursts') = 1 /\ fault' = "none")
             => BurstQueued]_vars

\* C40: a sweep has run a scanline event, then the transfer-end of SIF0 and
\* the SIF0 start behind it.
C40_Pair ==
    /\ lastOp = "processEvents"
    /\ fault = "none"
    /\ Len(fired) >= 3
    /\ fired[1].id = idHBLANK
    /\ fired[2].id = idTransferEnd
    /\ fired[3].id = idSIF0Start

====
